---- MODULE Spec2Model ----
(***************************************************************************)
(* Model of the link coordination layer of gsp-aircond-modbus:             *)
(* class ModbusService of src/src/modbus/modbus.service.improved.ts        *)
(* (lines 1143-2174): the address arbiter (switchToDevice), the retrying   *)
(* executor (executeModbusOperation), the request queue consumer, the poll *)
(* cycle, the setters, readRegistersBatch and resetStats.                  *)
(*                                                                         *)
(* The program is single threaded.  One action of the model is one task   *)
(* of the event loop: a handler runs from the event that resumes it (a     *)
(* timer, the completion of a protocol exchange, an external call) to its  *)
(* next suspension on a timer or on I/O.  The synchronous part is computed *)
(* by operators over a record s that holds the fields of the service.      *)
(***************************************************************************)
EXTENDS Integers, Sequences, FiniteSets, TLC

VARIABLES
    requestLock,        \* ModbusService.requestLock
    currentDeviceId,    \* ModbusService.currentDeviceId (NULL = null)
    clientId,           \* unit address last set on the protocol client (client.setID)
    masterStats,        \* ModbusService.masterStats
    requestQueue,       \* ModbusService.requestQueue
    isProcessingQueue,  \* ModbusService.isProcessingQueue
    isPolling,          \* ModbusService.isPolling
    isConnected,        \* ModbusService.isConnected
    devicesState,       \* ModbusService.devicesState: the DeviceState of each device
    ctorConnect,        \* the connect() started by the constructor: "pending" or "done"
    clock,              \* Date.now(), as the number of the current millisecond
    task,               \* the suspended handlers: task[t] is the frame of handler t
    timerOrder,         \* handlers waiting on setTimeout, in order of creation
    events,             \* what the last step did: acquisitions, invocations, failures, returns
    calls,              \* number of external calls made so far
    resets,             \* number of resetStats calls made so far
    lim,                \* the bounds of the specification that is checked
    waiters,            \* callers of read/writeRegisterWithPriority waiting on their interval
    states,             \* AircondMqttService.states: the partial DeviceState of each device
    rawMqtt,            \* AircondMqttService.rawMqtt: the last text received for each key
    updateTimeout,      \* AircondMqttService.updateTimeout (NULL = null), a timer handle
    pendingUpdates,     \* AircondMqttService.pendingUpdates
    busTimers,          \* the timers of the aggregator that are set and not cleared
    handles,            \* number of timers the aggregator has created
    statusWord,         \* the value of a status register
    flags,              \* what the decoders make of statusWord, <<>> before they ran
    mqtt                \* MqttService: isConnected, reconnectAttempts, its clients and timers

vars == <<requestLock, currentDeviceId, clientId, masterStats, requestQueue,
          isProcessingQueue, isPolling, isConnected, devicesState, ctorConnect, clock, task,
          timerOrder, events, calls, resets, lim, waiters,
          states, rawMqtt, updateTimeout, pendingUpdates, busTimers, handles,
          statusWord, flags, mqtt>>

busVars == <<states, rawMqtt, updateTimeout, pendingUpdates, busTimers, handles>>

wordVars == <<statusWord, flags>>

mqttVars == <<mqtt>>

linkVars == <<requestLock, currentDeviceId, clientId, masterStats, requestQueue,
              isProcessingQueue, isPolling, isConnected, devicesState, ctorConnect, clock,
              task, timerOrder, resets, lim, waiters>>

----------------------------------------------------------------------------
(* Program constants *)

deviceIds == <<5, 6, 7>>
Devices == {deviceIds[i] : i \in 1..Len(deviceIds)}
MAX_RETRIES == 3
DEVICE_SWITCH_DELAY == 200
REQUEST_DELAY == 100
NULL == 0

(* Bounds of the model *)

MaxRequests == 1    \* protocol exchanges of the executor that complete between two resets
                    \* (the successful reads of the poll cycle are not counted)
MaxCalls == 2       \* external calls (triggers, commands, enqueues) in one behaviour
MaxResets == 1      \* resetStats calls in one behaviour
MaxQueue == 1       \* length of the request queue

ExecMaxRequests == 4    \* the same, for SpecExec
ExecMaxCalls == 2
ExecMaxQueue == 1

SetMaxRequests == 1     \* the same, for SpecSetter (exchanges of readRegistersBatch)
SetMaxCalls == 2
SetMaxFailures == 4     \* failed exchanges of the setters

PollMaxCalls == 2       \* triggers of pollDevices in SpecPoll
PollMaxFailures == 4    \* failed exchanges of the poll cycles

TrigMaxCalls == 2       \* triggers of pollDevices in SpecTrigger

QueueMaxCalls == 3      \* calls of read/writeRegisterWithPriority in SpecQueue
QueueMaxQueue == 3      \* length of the request queue in SpecQueue
QueueMaxFailures == 4   \* failed exchanges in SpecQueue

Tasks == {"poll", "poll2", "queue", "setter", "batch"}

----------------------------------------------------------------------------
(* The service as one record, so that the synchronous part of a handler   *)
(* (everything it does between two suspensions) is one expression.        *)

St == [requestLock |-> requestLock, currentDeviceId |-> currentDeviceId,
       clientId |-> clientId, masterStats |-> masterStats,
       requestQueue |-> requestQueue, isProcessingQueue |-> isProcessingQueue,
       isPolling |-> isPolling, isConnected |-> isConnected,
       devicesState |-> devicesState,
       task |-> task, timerOrder |-> timerOrder, events |-> <<>>, log |-> lim.log,
       registry |-> lim.registry, waiters |-> waiters]

Commit(s) ==
    /\ requestLock' = s.requestLock
    /\ currentDeviceId' = s.currentDeviceId
    /\ clientId' = s.clientId
    /\ masterStats' = s.masterStats
    /\ requestQueue' = s.requestQueue
    /\ isProcessingQueue' = s.isProcessingQueue
    /\ isPolling' = s.isPolling
    /\ isConnected' = s.isConnected
    /\ devicesState' = s.devicesState
    /\ task' = s.task
    /\ timerOrder' = s.timerOrder
    /\ events' = s.events
    /\ waiters' = s.waiters
    /\ UNCHANGED <<busVars, wordVars, mqttVars>>

ZeroStats == [totalRequests |-> 0, successfulRequests |-> 0, failedRequests |-> 0,
              connectionErrors |-> 0, timeoutErrors |-> 0, deviceConflicts |-> 0]

IdleFrame == [pc |-> "idle", phase |-> "none", dev |-> NULL, attempt |-> 0,
              idx |-> 0, n |-> 0, kind |-> "none", val |-> 0, ms |-> 0,
              sent |-> NULL, inv |-> 0, dTotal |-> 0, dOk |-> 0, dFail |-> 0,
              got |-> <<>>, out |-> <<>>, wrote |-> FALSE, rb |-> [ok |-> FALSE, v |-> 0]]

(* The part of the service an event records before and after the step it is about. *)
Snap(s) == [lock |-> s.requestLock, cur |-> s.currentDeviceId, cid |-> s.clientId,
            stats |-> s.masterStats, reg |-> s.devicesState]

Ev(k, t, s0, s1, res, msg, acqFailed) ==
    [kind |-> k, task |-> t, dev |-> s1.task[t].dev, attempt |-> s1.task[t].attempt,
     res |-> res, msg |-> msg, pre |-> Snap(s0), post |-> Snap(s1),
     inv |-> s1.task[t].inv, dTotal |-> s1.task[t].dTotal, dOk |-> s1.task[t].dOk,
     dFail |-> s1.task[t].dFail, acqFailed |-> acqFailed]

Log(s, e) == IF s.log THEN [s EXCEPT !.events = Append(@, e)] ELSE s

(* await this.timeout(ms): the handler is suspended on a new timer. *)
Suspend(s, t, pc, ms) ==
    [s EXCEPT !.task[t].pc = pc, !.task[t].ms = ms, !.timerOrder = Append(@, t)]

(* await of a protocol exchange or of another I/O completion. *)
AwaitIO(s, t, pc) == [s EXCEPT !.task[t].pc = pc, !.task[t].ms = 0]

----------------------------------------------------------------------------
(* Error texts of the protocol client, as the set of fragments they hold. *)

Includes(msg, fragment) == fragment \in msg

ErrorMessages ==
    { {"Unexpected data error", "expected address"},
      {"expected address", "timeout"},
      {"timeout"},
      {"ETIMEDOUT"},
      {"Timed out"},
      {"Port Not Open"} }

NoMessage == {}

----------------------------------------------------------------------------
(* switchToDevice, lines 1258-1284 *)

SwitchBusy(s) == s.requestLock

(* Variant: no fast path, every acquire switches. *)
AlreadyActive_Never(s, deviceId) == FALSE

AlreadyActive(s, deviceId) == s.currentDeviceId = deviceId

(* Variant: the already-active check made before the busy check. *)
switchToDevice_ActiveFirst(s, deviceId) ==
    IF s.currentDeviceId = deviceId THEN [s |-> s, r |-> "true"]
    ELSE IF s.requestLock THEN [s |-> s, r |-> "false"]
    ELSE [s |-> [s EXCEPT !.requestLock = TRUE], r |-> "wait"]

(* Lines 1259-1268: the part before the settle delay.  r is "false" or     *)
(* "true" when the call returns at once, "wait" when it took the lock and  *)
(* awaits the settle delay.                                                *)
switchToDevice(s, deviceId) ==
    IF SwitchBusy(s) THEN [s |-> s, r |-> "false"]
    ELSE IF AlreadyActive(s, deviceId) THEN [s |-> s, r |-> "true"]
    ELSE [s |-> [s EXCEPT !.requestLock = TRUE], r |-> "wait"]

ReleaseLock(s) == [s EXCEPT !.requestLock = FALSE]

(* Lines 1273-1283: after the settle delay.  setIdThrows: client.setID raised. *)
(* Variant: the lock is released only when setID succeeds. *)
switchResume_NoFinally(s, deviceId, setIdThrows) ==
    IF setIdThrows
    THEN [s |-> s, r |-> "false"]
    ELSE [s |-> ReleaseLock([s EXCEPT !.clientId = deviceId,
                                      !.currentDeviceId = deviceId]),
          r |-> "true"]

switchResume(s, deviceId, setIdThrows) ==
    IF setIdThrows
    THEN [s |-> ReleaseLock(s), r |-> "false"]
    ELSE [s |-> ReleaseLock([s EXCEPT !.clientId = deviceId,
                                      !.currentDeviceId = deviceId]),
          r |-> "true"]

----------------------------------------------------------------------------
(* updateMasterStats, lines 1433-1447 *)

(* Variant: a failure is not counted in the total. *)
updateMasterStats_FailureNotInTotal(stats, success) ==
    IF success
    THEN [stats EXCEPT !.totalRequests = @ + 1, !.successfulRequests = @ + 1]
    ELSE [stats EXCEPT !.failedRequests = @ + 1]

updateMasterStats_FailuresInARow(stats, success) ==
    IF success
    THEN [stats EXCEPT !.totalRequests = @ + 1, !.successfulRequests = @ + 1,
                       !.failedRequests = 0]
    ELSE [stats EXCEPT !.totalRequests = @ + 1, !.failedRequests = @ + 1]

updateMasterStats(stats, success) ==
    IF success
    THEN [stats EXCEPT !.totalRequests = @ + 1, !.successfulRequests = @ + 1]
    ELSE [stats EXCEPT !.totalRequests = @ + 1, !.failedRequests = @ + 1]

(* Variant: the timeout branch tested before the conflict branch. *)
Classify_TimeoutFirst(errorMessage) ==
    IF Includes(errorMessage, "timeout") \/ Includes(errorMessage, "ETIMEDOUT")
    THEN "timeout"
    ELSE IF Includes(errorMessage, "Unexpected data error") \/ Includes(errorMessage, "expected address")
    THEN "conflict"
    ELSE "other"

(* Lines 1326-1337: classification of the error text. *)
Classify(errorMessage) ==
    IF Includes(errorMessage, "Unexpected data error") \/ Includes(errorMessage, "expected address")
    THEN "conflict"
    ELSE IF Includes(errorMessage, "timeout") \/ Includes(errorMessage, "ETIMEDOUT")
    THEN "timeout"
    ELSE "other"

(* Lines 1322-1339: the counters after one failed invocation. *)
RecordFailure_KindOnly(stats, errorMessage) ==
    LET c == Classify(errorMessage)
    IN IF c = "conflict" THEN [stats EXCEPT !.deviceConflicts = @ + 1]
       ELSE IF c = "timeout" THEN [stats EXCEPT !.timeoutErrors = @ + 1]
       ELSE updateMasterStats(stats, FALSE)

RecordFailure(stats, errorMessage) ==
    LET c == Classify(errorMessage)
        s1 == IF c = "conflict" THEN [stats EXCEPT !.deviceConflicts = @ + 1]
              ELSE IF c = "timeout" THEN [stats EXCEPT !.timeoutErrors = @ + 1]
              ELSE stats
    IN updateMasterStats(s1, FALSE)

(* Variant: one more pass of the loop. *)
LastAttempt_OneMore(attempt) == attempt = MAX_RETRIES + 1

LastAttempt(attempt) == attempt = MAX_RETRIES

PreDelay(attempt) == REQUEST_DELAY * (attempt + 1)

PostDelay(attempt) == REQUEST_DELAY * (attempt + 2)

(* Variant: the last error is raised to the caller. *)
GiveUp_Throws == "throw"

(* Line 1346: what the executor hands to its caller when it gives up. *)
GiveUp == "null"


----------------------------------------------------------------------------
(* Inputs *)

RegisterValues == {2, 22}

SetterInputs == { [kind |-> "mode", value |-> 2],
                  [kind |-> "temp", value |-> 22],
                  [kind |-> "temp", value |-> 31],
                  [kind |-> "fan", value |-> 5] }

(* The inputs of SpecSetter: values at, inside and outside the limits. *)
AllSetterInputs == { [kind |-> "mode", value |-> 2],
                     [kind |-> "mode", value |-> 7],
                     [kind |-> "temp", value |-> 15],
                     [kind |-> "temp", value |-> 16],
                     [kind |-> "temp", value |-> 22],
                     [kind |-> "temp", value |-> 30],
                     [kind |-> "temp", value |-> 31],
                     [kind |-> "fan", value |-> 4],
                     [kind |-> "fan", value |-> 5] }

BatchInputs == { <<>>, <<1601>>, <<1603, 1601>> }

Priorities == {"high", "normal", "low"}

READS_PER_DEVICE == 9

----------------------------------------------------------------------------
(* DeviceState (lines 1193-1215) and the values the getters return        *)
(* (lines 1704-1830).  The name of a device is left out; the two          *)
(* temperatures are held in half degrees, so that raw * 0.5 - 20 is the   *)
(* integer raw - 40.                                                      *)

NoErrors == [tempSensorError |-> FALSE, waterTempSensor1Error |-> FALSE,
             waterTempSensor2Error |-> FALSE, fanSpeedError |-> FALSE,
             pumpError |-> FALSE]

getInitialState(deviceId) ==
    [id |-> deviceId, isOnline |-> FALSE, mode |-> "", isOn |-> FALSE,
     setTemperature |-> 0, fanSpeed |-> 0, temperature |-> 0, waterTemperature |-> 0,
     pumpStatus |-> FALSE, valveStatus |-> FALSE, errors |-> NoErrors,
     protectionState |-> 0]

(* Lines 1217-1232, with the labels in English. *)
convertMode(mode) ==
    CASE mode = 0 -> "off"
      [] mode = 1 -> "cooling"
      [] mode = 2 -> "heating"
      [] mode = 3 -> "ventilation"
      [] mode = 4 -> "auto"
      [] OTHER -> "unknown"

(* (raw & (1 << k)) !== 0 *)
Bit(raw, k) == (raw \div (2 ^ k)) % 2 = 1

HalfDegrees(raw) == raw - 40

DecodeErrors_Bit13(raw) ==
    [tempSensorError |-> Bit(raw, 2), waterTempSensor1Error |-> Bit(raw, 3),
     waterTempSensor2Error |-> Bit(raw, 4), fanSpeedError |-> Bit(raw, 8),
     pumpError |-> Bit(raw, 13)]

DecodeErrors(raw) ==
    [tempSensorError |-> Bit(raw, 2), waterTempSensor1Error |-> Bit(raw, 3),
     waterTempSensor2Error |-> Bit(raw, 4), fanSpeedError |-> Bit(raw, 8),
     pumpError |-> Bit(raw, 14)]

(* What a getter returns: null, or the value it makes of the register. *)
NullResult == [ok |-> FALSE, v |-> 0]

(* The getters in the order of lines 1615-1647: mode, setpoint, fan speed, *)
(* air, water, pump, valve, errors, protection.                            *)
GetterResult(idx, res, raw) ==
    IF res # "ok" THEN NullResult
    ELSE [ok |-> TRUE,
          v |-> CASE idx \in {4, 5} -> HalfDegrees(raw)
                  [] idx = 6 -> Bit(raw, 0)
                  [] idx = 7 -> Bit(raw, 9)
                  [] idx = 8 -> DecodeErrors(raw)
                  [] OTHER -> raw]

(* x || 0 and x || false *)
OrZero(r) == IF r.ok THEN r.v ELSE 0

OrFalse(r) == IF r.ok THEN r.v ELSE FALSE

(* Lines 1650-1663 and 1865-1878: the state made of the nine results. *)
AssembleState(prev, got) ==
    [prev EXCEPT !.isOnline = TRUE,
                 !.mode = IF got[1].ok THEN convertMode(got[1].v) ELSE "",
                 !.isOn = got[1].ok /\ got[1].v > 0,
                 !.setTemperature = OrZero(got[2]),
                 !.fanSpeed = OrZero(got[3]),
                 !.temperature = OrZero(got[4]),
                 !.waterTemperature = OrZero(got[5]),
                 !.pumpStatus = OrFalse(got[6]),
                 !.valveStatus = OrFalse(got[7]),
                 !.errors = IF got[8].ok THEN got[8].v ELSE prev.errors,
                 !.protectionState = OrZero(got[9])]

(* Variant: the offline state is the initial state. *)
OfflineState_Reset(prev) == getInitialState(prev.id)

(* Lines 1601-1604 and 1675-1678 *)
OfflineState(prev) == [prev EXCEPT !.isOnline = FALSE]

(* Variant: a key the map does not hold is not added. *)
SetDeviceState_KnownOnly(s, deviceId, state) ==
    IF s.registry THEN [s EXCEPT !.devicesState[deviceId] = state] ELSE s

(* this.devicesState.set(deviceId, state): the entry of the key is        *)
(* replaced, or added when the map does not hold the key.                 *)
SetDeviceState(s, deviceId, state) ==
    IF ~s.registry THEN s
    ELSE IF deviceId \in DOMAIN s.devicesState
         THEN [s EXCEPT !.devicesState[deviceId] = state]
         ELSE [s EXCEPT !.devicesState = (deviceId :> state) @@ @]

(* The result of read number idx is kept in a local of the handler. *)
KeepResult(s, t, idx, res, raw) ==
    IF s.registry
    THEN [s EXCEPT !.task[t].got = Append(@, GetterResult(idx, res, raw))]
    ELSE s

(* modbusGateway.broadcastDevicesState(list) *)
Broadcast(s, t, list) ==
    IF s.log
    THEN [s EXCEPT !.events = Append(@, [kind |-> "broadcast", task |-> t, list |-> list])]
    ELSE s

----------------------------------------------------------------------------
(* executeModbusOperation, lines 1289-1355, with the continuations of its *)
(* callers: what the caller does with the returned value up to its next   *)
(* suspension.                                                            *)

RECURSIVE ExecAttempt(_, _), ExecReturn(_, _, _, _, _), Continue(_, _, _, _),
          ExecStart(_, _, _, _, _)

Finish(s, t) == [s EXCEPT !.task[t] = IdleFrame]

Acquire(s, t) ==
    LET sw == switchToDevice(s, s.task[t].dev)
    IN [s |-> Log(sw.s, Ev("acquire", t, s, sw.s, sw.r, NoMessage, FALSE)), r |-> sw.r]

(* Line 1311: operation() is called; the request leaves for the address    *)
(* the client holds at this moment.                                        *)
InvokeOp(s, t) ==
    LET s1 == AwaitIO([s EXCEPT !.task[t].inv = @ + 1, !.task[t].sent = s.clientId], t, "inOp")
    IN Log(s1, Ev("invoke", t, s, s1, "sent", NoMessage, FALSE))

(* Lines 1305-1311 *)
AfterSwitch(s, t) ==
    IF s.task[t].attempt > 0
    THEN Suspend(s, t, "preDelay", PreDelay(s.task[t].attempt))
    ELSE InvokeOp(s, t)

(* Variant: a refused switch is recorded as a failed request. *)
SwitchFailed_Counted(s, t) ==
    ExecReturn([s EXCEPT !.masterStats = updateMasterStats(@, FALSE)], t, "null", 0, TRUE)

(* Lines 1298-1303: the switch was refused or failed. *)
SwitchFailed(s, t) == ExecReturn(s, t, "null", 0, TRUE)

(* Lines 1294-1303: one pass of the loop up to its first suspension. *)
ExecAttempt(s, t) ==
    LET a == Acquire(s, t)
    IN IF a.r = "false" THEN SwitchFailed(a.s, t)
       ELSE IF a.r = "true" THEN AfterSwitch(a.s, t)
       ELSE Suspend(a.s, t, "switching", DEVICE_SWITCH_DELAY)

(* A caller starts a call of the executor for deviceId. *)
ExecStart(s, t, deviceId, phase, idx) ==
    ExecAttempt([s EXCEPT !.task[t].dev = deviceId, !.task[t].phase = phase,
                          !.task[t].n = IF phase = "write" THEN @ + 1 ELSE @,
                          !.task[t].idx = idx, !.task[t].attempt = 0,
                          !.task[t].inv = 0, !.task[t].dTotal = 0,
                          !.task[t].dOk = 0, !.task[t].dFail = 0], t)

(* The call returns res ("ok" with value val, "null", or "throw"). *)
ExecReturn(s, t, res, val, acqFailed) ==
    Continue(Log(s, Ev("return", t, s, s, res, NoMessage, acqFailed)), t, res, val)

(* checkDeviceAvailability, line 1555: the probe request is sent. *)
StartProbe(s, t, phase) == AwaitIO([s EXCEPT !.task[t].phase = phase], t, "probe")

(* Lines 1993, 2041, 2089: the read-back confirms the write. *)
Confirmed_AnyRead(res, val, written) == res = "ok"

Confirmed(res, val, written) == res = "ok" /\ val = written

(* A setter returns ok to its caller (lines 1987, 2000, 2005, 2009). *)
SetterReturn(s, t, ok) ==
    LET f == s.task[t]
    IN Finish(Log(s, [kind |-> "setterReturn", task |-> t, res |-> ok, dev |-> f.dev,
                      in |-> [kind |-> f.kind, value |-> f.val], writes |-> f.n,
                      wrote |-> f.wrote, rb |-> f.rb, post |-> Snap(s)]), t)

(* Lines 1650-1666: the new state of the device is stored and added to    *)
(* the list of the cycle.                                                  *)
PushState(s, t, state) ==
    IF s.registry THEN [s EXCEPT !.task[t].out = Append(@, state)] ELSE s

(* Variant: the offline state is stored and not pushed to the list. *)
MarkOffline_NotListed(s, t) ==
    IF s.registry
    THEN SetDeviceState(s, s.task[t].dev, OfflineState(s.devicesState[s.task[t].dev]))
    ELSE s

(* Lines 1601-1606 and 1675-1680 *)
MarkOffline(s, t) ==
    IF s.registry
    THEN LET state == OfflineState(s.devicesState[s.task[t].dev])
         IN PushState(SetDeviceState(s, s.task[t].dev, state), t, state)
    ELSE s

(* Lines 1650-1684 *)
PollAssemble(s, t) ==
    LET s1 == IF s.registry
              THEN LET state == AssembleState(s.devicesState[s.task[t].dev], s.task[t].got)
                       s0 == Log(s, [kind |-> "assembled", task |-> t, dev |-> s.task[t].dev,
                                     got |-> s.task[t].got, state |-> state, pre |-> Snap(s)])
                   IN PushState(SetDeviceState(s0, s.task[t].dev, state), t, state)
              ELSE s
    IN Suspend([s1 EXCEPT !.task[t].phase = "next"], t, "devGap", 500)

(* Lines 1865-1878 when devicesState.get(deviceId) is undefined: the      *)
(* spread of undefined adds no field.                                     *)
AssembleFresh(got) ==
    [isOnline |-> TRUE,
     mode |-> IF got[1].ok THEN convertMode(got[1].v) ELSE "",
     isOn |-> got[1].ok /\ got[1].v > 0,
     setTemperature |-> OrZero(got[2]),
     fanSpeed |-> OrZero(got[3]),
     temperature |-> OrZero(got[4]),
     waterTemperature |-> OrZero(got[5]),
     pumpStatus |-> OrFalse(got[6]),
     valveStatus |-> OrFalse(got[7]),
     errors |-> got[8].v,
     protectionState |-> OrZero(got[9])]

(* updateDeviceStateImmediately returns: to the setter that called it,    *)
(* which returns true whatever it returns (lines 1997-1999), or to        *)
(* ModbusController.refreshDeviceState.                                   *)
UpdReturn(s, t, updated) ==
    IF s.task[t].kind = "refresh"
    THEN Finish(Log(s, [kind |-> "refreshReturn", task |-> t, dev |-> s.task[t].dev,
                        updated |-> updated]), t)
    ELSE SetterReturn(s, t, TRUE)

(* updateDeviceStateImmediately, lines 1865-1885.  For a deviceId the map *)
(* does not hold, reading the errors of undefined (line 1876, when the    *)
(* errors were not read) throws and line 1885 returns null.               *)
UpdAssemble(s, t) ==
    LET dev == s.task[t].dev
        got == s.task[t].got
    IN IF ~s.registry THEN UpdReturn(s, t, TRUE)
       ELSE IF dev \in DOMAIN s.devicesState
       THEN LET state == AssembleState(s.devicesState[dev], got)
            IN UpdReturn(Broadcast(SetDeviceState(s, dev, state), t, <<state>>), t, TRUE)
       ELSE IF got[8].ok
       THEN LET state == AssembleFresh(got)
            IN UpdReturn(Broadcast(SetDeviceState(s, dev, state), t, <<state>>), t, TRUE)
       ELSE UpdReturn(s, t, FALSE)

Continue(s, t, res, val) ==
    LET f == s.task[t]
    IN CASE f.phase = "queue" ->
              \* processRequestQueue, lines 1407-1427
              Finish([s EXCEPT !.isProcessingQueue = FALSE], t)
         [] f.phase = "write" ->
              \* setters, lines 1984-1990, 2032-2038, 2080-2086
              IF res = "ok"
              THEN Suspend([s EXCEPT !.task[t].phase = "confirm", !.task[t].wrote = TRUE],
                           t, "confirmWait", 100)
              ELSE SetterReturn(s, t, FALSE)
         [] f.phase = "confirm" ->
              \* setters, lines 1991-2005: read back, then updateDeviceStateImmediately
              LET s1 == [s EXCEPT !.task[t].rb = GetterResult(1, res, val)]
              IN IF Confirmed(res, val, f.val)
                 THEN StartProbe([s1 EXCEPT !.task[t].got = <<>>], t, "updProbe")
                 ELSE SetterReturn(s1, t, FALSE)
         [] f.phase = "upd" ->
              \* updateDeviceStateImmediately, lines 1854-1885
              LET s1 == KeepResult(s, t, f.idx, res, val)
              IN IF res = "throw" THEN UpdReturn(s1, t, FALSE)
                 ELSE IF f.idx < READS_PER_DEVICE
                 THEN ExecStart(s1, t, f.dev, "upd", f.idx + 1)
                 ELSE UpdAssemble(s1, t)
         [] f.phase = "read" ->
              \* pollDevices, lines 1615-1648 and 1673-1684
              IF res = "throw"
              THEN Suspend([MarkOffline(s, t) EXCEPT !.task[t].phase = "next"], t, "devGap", 500)
              ELSE Suspend(KeepResult(s, t, f.idx, res, val), t, "gap", 200)
         [] f.phase = "group" ->
              \* readRegistersBatch, lines 1504-1524
              IF res # "throw" /\ f.idx < f.n
              THEN ExecStart(s, t, f.dev, "group", f.idx + 1)
              ELSE Finish(s, t)
         [] OTHER -> Finish(s, t)

(* The timer of handler t fired. *)
Wake(s, t) == [s EXCEPT !.timerOrder = SelectSeq(@, LAMBDA u : u # t)]

(* Lines 1273-1303: the settle delay of a switch made by the executor is over. *)
ExecSwitched(s, t, setIdThrows) ==
    LET sw == switchResume(s, s.task[t].dev, setIdThrows)
        s1 == Log(sw.s, Ev("switched", t, s, sw.s, sw.r, NoMessage, FALSE))
    IN IF sw.r = "true" THEN AfterSwitch(s1, t)
       ELSE SwitchFailed(s1, t)

(* Lines 1312-1321: the operation resolved. *)
OpSucceeded(s, t, val) ==
    LET st1 == updateMasterStats(s.masterStats, TRUE)
        s1 == [s EXCEPT !.masterStats = st1,
                        !.task[t].dTotal = @ + (st1.totalRequests - s.masterStats.totalRequests),
                        !.task[t].dOk = @ + (st1.successfulRequests - s.masterStats.successfulRequests),
                        !.task[t].dFail = @ + (st1.failedRequests - s.masterStats.failedRequests)]
    IN ExecReturn(s1, t, "ok", val, FALSE)

(* Lines 1322-1351: the operation rejected with errorMessage. *)
OpFailed(s, t, errorMessage) ==
    LET st1 == RecordFailure(s.masterStats, errorMessage)
        s1 == [s EXCEPT !.masterStats = st1,
                        !.task[t].dTotal = @ + (st1.totalRequests - s.masterStats.totalRequests),
                        !.task[t].dOk = @ + (st1.successfulRequests - s.masterStats.successfulRequests),
                        !.task[t].dFail = @ + (st1.failedRequests - s.masterStats.failedRequests)]
        s2 == Log(s1, Ev("fail", t, s, s1, "error", errorMessage, FALSE))
    IN IF LastAttempt(s.task[t].attempt)
       THEN ExecReturn(s2, t, GiveUp, 0, FALSE)
       ELSE Suspend(s2, t, "postDelay", PostDelay(s.task[t].attempt))

(* Line 1294: attempt++ and the next pass of the loop. *)
NextAttempt(s, t) == ExecAttempt([s EXCEPT !.task[t].attempt = @ + 1], t)


----------------------------------------------------------------------------
(* Request queue: addToQueue (1452-1466), processRequestQueue (1371-1428) *)

PriorityOrder(p) == CASE p = "high" -> 3 [] p = "normal" -> 2 [] OTHER -> 1

(* Variant: the priorities are compared the other way round. *)
SortsBefore_LowFirst(a, b) ==
    IF PriorityOrder(a.priority) # PriorityOrder(b.priority)
    THEN PriorityOrder(a.priority) - PriorityOrder(b.priority) < 0
    ELSE a.timestamp - b.timestamp < 0

(* The comparator of lines 1378-1388 is negative: a sorts before b. *)
SortsBefore(a, b) ==
    IF PriorityOrder(a.priority) # PriorityOrder(b.priority)
    THEN PriorityOrder(b.priority) - PriorityOrder(a.priority) < 0
    ELSE a.timestamp - b.timestamp < 0

RECURSIVE InsertSorted(_, _)
InsertSorted(sorted, x) ==
    IF sorted = <<>> THEN <<x>>
    ELSE IF SortsBefore(x, Head(sorted)) THEN <<x>> \o sorted
    ELSE <<Head(sorted)>> \o InsertSorted(Tail(sorted), x)

(* Array.prototype.sort is stable: equal elements keep their order. *)
RECURSIVE SortQueue(_)
SortQueue(q) ==
    IF q = <<>> THEN <<>>
    ELSE InsertSorted(SortQueue(SubSeq(q, 1, Len(q) - 1)), q[Len(q)])

addToQueue(s, request, now) ==
    [s EXCEPT !.requestQueue = Append(@, [request EXCEPT !.timestamp = now])]

(* Variant: the request stays in the queue while it is processed. *)
processRequestQueue_KeepsRequest(s, t) ==
    LET sorted == SortQueue(s.requestQueue)
        request == Head(sorted)
        s0 == Log(s, [kind |-> "dequeue", request |-> request, before |-> s.requestQueue])
        s1 == [s0 EXCEPT !.isProcessingQueue = TRUE,
                         !.requestQueue = sorted]
    IN ExecStart(s1, t, request.deviceId, "queue", 0)

(* Variant: the processing flag is not set. *)
processRequestQueue_NoFlag(s, t) ==
    LET sorted == SortQueue(s.requestQueue)
        request == Head(sorted)
        s0 == Log(s, [kind |-> "dequeue", request |-> request, before |-> s.requestQueue])
        s1 == [s0 EXCEPT !.requestQueue = Tail(sorted)]
    IN ExecStart(s1, t, request.deviceId, "queue", 0)

(* Variant: the consumer takes the request and returns with the flag set. *)
processRequestQueue_FlagLeftSet(s, t) ==
    LET sorted == SortQueue(s.requestQueue)
        request == Head(sorted)
        s0 == Log(s, [kind |-> "dequeue", request |-> request, before |-> s.requestQueue])
    IN [s0 EXCEPT !.isProcessingQueue = TRUE,
                  !.requestQueue = Tail(sorted)]

processRequestQueue(s, t) ==
    LET sorted == SortQueue(s.requestQueue)
        request == Head(sorted)
        s0 == Log(s, [kind |-> "dequeue", request |-> request, before |-> s.requestQueue])
        s1 == [s0 EXCEPT !.isProcessingQueue = TRUE,
                         !.requestQueue = Tail(sorted)]
    IN ExecStart(s1, t, request.deviceId, "queue", 0)

(* readRegisterWithPriority and writeRegisterWithPriority, lines 1895-1966: *)
(* the request is queued and an interval of 100 ms is started.             *)
withPriority(s, request, now) ==
    LET s1 == addToQueue(s, request, now)
    IN IF request.id = 0 THEN s1
       ELSE [s1 EXCEPT !.waiters = @ \cup {[id |-> request.id, type |-> request.type]}]

(* Variant: the caller is told whether its request has left the queue. *)
checkResult_Delivered(s, w) ==
    IF \E i \in 1..Len(s.requestQueue) : s.requestQueue[i].id = w.id
    THEN [ok |-> w.type = "write", v |-> FALSE]
    ELSE [ok |-> TRUE, v |-> TRUE]

(* checkResult, lines 1909-1913 and 1948-1952: resolve(null) for a read,  *)
(* resolve(false) for a write.                                            *)
checkResult(s, w) == [ok |-> w.type = "write", v |-> FALSE]

(* Variant: the request is withdrawn when its caller is answered. *)
priorityInterval_Withdraws(s, w) ==
    Log([s EXCEPT !.waiters = @ \ {w},
                  !.requestQueue = SelectSeq(@, LAMBDA q : q.id # w.id)],
        [kind |-> "priorityReturn", id |-> w.id, type |-> w.type, value |-> checkResult(s, w),
         queued |-> {s.requestQueue[i].id : i \in 1..Len(s.requestQueue)},
         processing |-> s.isProcessingQueue])

(* The first tick of the interval of lines 1918-1925 and 1957-1964 settles *)
(* the promise; the later ticks call resolve again, which does nothing.   *)
priorityInterval(s, w) ==
    Log([s EXCEPT !.waiters = @ \ {w}],
        [kind |-> "priorityReturn", id |-> w.id, type |-> w.type, value |-> checkResult(s, w),
         queued |-> {s.requestQueue[i].id : i \in 1..Len(s.requestQueue)},
         processing |-> s.isProcessingQueue])

----------------------------------------------------------------------------
(* readRegistersBatch, lines 1471-1525 *)

RECURSIVE InsertAsc(_, _)
InsertAsc(sorted, x) ==
    IF sorted = <<>> THEN <<x>>
    ELSE IF x - Head(sorted) < 0 THEN <<x>> \o sorted
    ELSE <<Head(sorted)>> \o InsertAsc(Tail(sorted), x)

RECURSIVE SortAsc(_)
SortAsc(r) ==
    IF r = <<>> THEN <<>> ELSE InsertAsc(SortAsc(SubSeq(r, 1, Len(r) - 1)), r[Len(r)])

(* Lines 1484-1501: runs of consecutive registers. *)
RECURSIVE GroupRegisters(_, _, _)
GroupRegisters(sortedRegisters, currentGroup, groups) ==
    IF sortedRegisters = <<>>
    THEN IF Len(currentGroup) > 0 THEN Append(groups, currentGroup) ELSE groups
    ELSE LET x == Head(sortedRegisters)
         IN IF Len(currentGroup) = 0 \/ x = currentGroup[Len(currentGroup)] + 1
            THEN GroupRegisters(Tail(sortedRegisters), Append(currentGroup, x), groups)
            ELSE GroupRegisters(Tail(sortedRegisters), <<x>>, Append(groups, currentGroup))

BatchGroups(s, t) ==
    IF s.task[t].n = 0 THEN Finish(s, t)
    ELSE ExecStart(s, t, s.task[t].dev, "group", 1)

readRegistersBatch(s, t, deviceId, registers) ==
    LET groups == GroupRegisters(SortAsc(registers), <<>>, <<>>)
        s0 == [s EXCEPT !.task[t].dev = deviceId, !.task[t].phase = "batch",
                        !.task[t].n = Len(groups)]
        a == Acquire(s0, t)
    IN IF a.r = "false" THEN Finish(a.s, t)
       ELSE IF a.r = "true" THEN BatchGroups(a.s, t)
       ELSE Suspend(a.s, t, "batchSwitching", DEVICE_SWITCH_DELAY)

BatchSwitched(s, t, setIdThrows) ==
    LET sw == switchResume(s, s.task[t].dev, setIdThrows)
        s1 == Log(sw.s, Ev("switched", t, s, sw.s, sw.r, NoMessage, FALSE))
    IN IF sw.r = "true" THEN BatchGroups(s1, t) ELSE Finish(s1, t)

----------------------------------------------------------------------------
(* pollDevices, lines 1569-1696 *)

(* The cycle without the finally block of lines 1687-1695. *)
PollDevice_KeepsFlag(s, t, i) ==
    IF i > Len(deviceIds)
    THEN Finish(Broadcast(s, t, s.task[t].out), t)
    ELSE StartProbe([s EXCEPT !.task[t].n = i, !.task[t].dev = deviceIds[i]], t, "pollProbe")

(* Lines 1591-1598 and 1687-1695: the probe of device number i, or the end of the cycle. *)
PollDevice(s, t, i) ==
    IF i > Len(deviceIds)
    THEN Finish(Broadcast([s EXCEPT !.isPolling = FALSE], t, s.task[t].out), t)
    ELSE StartProbe([s EXCEPT !.task[t].n = i, !.task[t].dev = deviceIds[i]], t, "pollProbe")

PollBegin(s, t) == PollDevice([s EXCEPT !.isPolling = TRUE, !.task[t].out = <<>>], t, 1)

(* Variant: an unavailable device ends the cycle. *)
PollProbed_Abort(s, t, isAvailable, setIdThrows) ==
    LET f == s.task[t]
    IN IF ~isAvailable THEN PollDevice(MarkOffline(s, t), t, Len(deviceIds) + 1)
       ELSE IF setIdThrows
       THEN Suspend([MarkOffline(s, t) EXCEPT !.task[t].phase = "next"], t, "devGap", 500)
       ELSE ExecStart([s EXCEPT !.clientId = f.dev, !.task[t].got = <<>>], t, f.dev, "read", 1)

(* Lines 1599-1615 *)
PollProbed(s, t, isAvailable, setIdThrows) ==
    LET f == s.task[t]
    IN IF ~isAvailable THEN PollDevice(MarkOffline(s, t), t, f.n + 1)
       ELSE IF setIdThrows
       THEN Suspend([MarkOffline(s, t) EXCEPT !.task[t].phase = "next"], t, "devGap", 500)
       ELSE ExecStart([s EXCEPT !.clientId = f.dev, !.task[t].got = <<>>], t, f.dev, "read", 1)

(* Lines 1616-1684: after the pause that follows a read. *)
PollAfterGap(s, t) ==
    LET f == s.task[t]
    IN IF f.idx < READS_PER_DEVICE
       THEN ExecStart(s, t, f.dev, "read", f.idx + 1)
       ELSE PollAssemble(s, t)

----------------------------------------------------------------------------
(* Setters, lines 1973-2106 *)

(* Variant: the lower limit itself is refused. *)
ValidSetterInput_LowerLimitRefused(in) ==
    CASE in.kind = "temp" -> ~(in.value <= 16 \/ in.value > 30)
      [] in.kind = "fan" -> ~(in.value < 0 \/ in.value > 4)
      [] OTHER -> TRUE

ValidSetterInput(in) ==
    CASE in.kind = "temp" -> ~(in.value < 16 \/ in.value > 30)
      [] in.kind = "fan" -> ~(in.value < 0 \/ in.value > 4)
      [] OTHER -> TRUE

setter(s, t, deviceId, in) ==
    LET s0 == [s EXCEPT !.task[t].kind = in.kind, !.task[t].val = in.value,
                        !.task[t].dev = deviceId]
        s1 == Log(s0, [kind |-> "setterCall", task |-> t, dev |-> deviceId, in |-> in,
                       pre |-> Snap(s)])
    IN IF ValidSetterInput(in)
       THEN ExecStart(s1, t, deviceId, "write", 0)
       ELSE SetterReturn(s1, t, FALSE)

(* updateDeviceStateImmediately, lines 1847-1854 *)
UpdProbed(s, t, isAvailable) ==
    IF isAvailable THEN ExecStart(s, t, s.task[t].dev, "upd", 1) ELSE UpdReturn(s, t, FALSE)

(* ModbusController.refreshDeviceState calls updateDeviceStateImmediately *)
(* with the number it parsed from the path.                               *)
refreshDeviceState(s, t, deviceId) ==
    StartProbe([s EXCEPT !.task[t].kind = "refresh", !.task[t].dev = deviceId,
                         !.task[t].got = <<>>], t, "updProbe")


----------------------------------------------------------------------------
(* The bus channel: AircondMqttService and AircondGateway.                *)

UPDATE_DELAY == 1000
SETTLE_DELAY == 500

(* Text is a sequence of characters.  The texts of the model are made of  *)
(* letters, digits, "_" and a sign; on those Number and parseInt are as   *)
(* below.                                                                 *)
DigitChars == <<"0", "1", "2", "3", "4", "5", "6", "7", "8", "9">>

IsDigit(c) == \E i \in 1..Len(DigitChars) : DigitChars[i] = c

DigitValue(c) == (CHOOSE i \in 1..Len(DigitChars) : DigitChars[i] = c) - 1

AllDigits(str) == \A i \in 1..Len(str) : IsDigit(str[i])

RECURSIVE Decimal(_)
Decimal(str) ==
    IF str = <<>> THEN 0
    ELSE 10 * Decimal(SubSeq(str, 1, Len(str) - 1)) + DigitValue(str[Len(str)])

RECURSIVE LeadingDigits(_)
LeadingDigits(str) ==
    IF str = <<>> \/ ~IsDigit(str[1]) THEN <<>>
    ELSE <<str[1]>> \o LeadingDigits(Tail(str))

(* A JavaScript number: an integer, or NaN. *)
Num(n) == [nan |-> FALSE, n |-> n]

NaN == [nan |-> TRUE, n |-> 0]

Signed(str) == str # <<>> /\ str[1] \in {"-", "+"}

Sign(str) == IF Signed(str) /\ str[1] = "-" THEN -1 ELSE 1

Unsigned(str) == IF Signed(str) THEN Tail(str) ELSE str

(* Number(value): the empty text is 0, a decimal numeral is its value,    *)
(* any other text is NaN.                                                 *)
Number(str) ==
    IF str = <<>> THEN Num(0)
    ELSE IF Unsigned(str) # <<>> /\ AllDigits(Unsigned(str))
         THEN Num(Sign(str) * Decimal(Unsigned(str)))
         ELSE NaN

(* parseInt(text): the value of the longest decimal prefix, NaN if there  *)
(* is none.                                                               *)
parseInt(str) ==
    LET d == LeadingDigits(Unsigned(str))
    IN IF d = <<>> THEN NaN ELSE Num(Sign(str) * Decimal(d))

(* text.replace(pattern, ''): the first occurrence of the pattern is      *)
(* removed.                                                               *)
RECURSIVE replace(_, _)
replace(str, pattern) ==
    IF Len(str) < Len(pattern) THEN str
    ELSE IF SubSeq(str, 1, Len(pattern)) = pattern
         THEN SubSeq(str, Len(pattern) + 1, Len(str))
         ELSE <<Head(str)>> \o replace(Tail(str), pattern)

AC_ == <<"A", "C", "_">>

(* `${n}` for n >= 0 *)
RECURSIVE Template(_)
Template(n) ==
    IF n < 10 THEN <<DigitChars[n + 1]>>
    ELSE Template(n \div 10) \o <<DigitChars[(n % 10) + 1]>>

(* num > 0 *)
Positive(num) == ~num.nan /\ num.n > 0

(* (num & (1 << k)) !== 0 for k < 30: the operand is taken as a 32-bit    *)
(* integer in two's complement, NaN as 0; bit k of it is bit k of its     *)
(* residue modulo 2^30.                                                   *)
MaskBit(num, k) == ~num.nan /\ Bit(num.n % (2 ^ 30), k)

(* AC_IDS *)
AC_IDS == {5, 6, 7}

TopicKeys == {"mode", "setpoint", "fanSpeed", "temperature", "waterTemperature",
              "pumpStatus", "valveStatus"}

(* Line 62: a state with an identity and no other field.  A field that is *)
(* not set is <<>>, a field that is set is <<value>>.                     *)
NewPartialState(id) ==
    [id |-> AC_ \o Template(id), isOnline |-> <<>>, mode |-> <<>>, isOn |-> <<>>,
     setTemperature |-> <<>>, fanSpeed |-> <<>>, temperature |-> <<>>,
     waterTemperature |-> <<>>, pumpStatus |-> <<>>, valveStatus |-> <<>>]

(* AircondMqttService when onModuleInit has returned. *)
BusInit ==
    /\ states = [d \in {5, 6, 7} |-> NewPartialState(d)]
    /\ rawMqtt = [d \in {5, 6, 7} |-> [k \in TopicKeys |-> <<>>]]
    /\ updateTimeout = NULL
    /\ pendingUpdates = {}
    /\ busTimers = {}
    /\ handles = 0

(* MqttService, part_003 lines 90-98.  Each client connectToBroker has     *)
(* created and that has not closed is "connecting" or "connected"; timers *)
(* holds the delays of the reconnect timers that are set.                 *)
MAX_RECONNECT_ATTEMPTS == 5

RECONNECT_DELAY == 5000

(* Lines 114-127: a new client is created; the earlier one is not ended. *)
connectToBroker(m) == [m EXCEPT !.clients = Append(@, "connecting")]

(* MqttService when onModuleInit (lines 100-102) has returned. *)
MqttStart ==
    connectToBroker([isConnected |-> FALSE, reconnectAttempts |-> 0,
                     clients |-> <<>>, timers |-> <<>>])

MqttInit == mqtt = MqttStart

(* The limit compared with > instead of >=. *)
scheduleReconnect_OneMore(m) ==
    IF m.reconnectAttempts > MAX_RECONNECT_ATTEMPTS THEN m
    ELSE [m EXCEPT !.reconnectAttempts = @ + 1, !.timers = Append(@, RECONNECT_DELAY)]

(* Lines 180-193 *)
scheduleReconnect(m) ==
    IF m.reconnectAttempts >= MAX_RECONNECT_ATTEMPTS THEN m
    ELSE [m EXCEPT !.reconnectAttempts = @ + 1, !.timers = Append(@, RECONNECT_DELAY)]

(* The 'connect' handler of client c, lines 129-144. *)
onConnect(m, c) ==
    [m EXCEPT !.isConnected = TRUE, !.reconnectAttempts = 0, !.clients[c] = "connected"]

(* The 'error' and 'offline' handlers, lines 146-149 and 157-160. *)
onError(m) == [m EXCEPT !.isConnected = FALSE]

(* The 'close' handler of client c, lines 151-155; a closed client emits *)
(* nothing more and is dropped from clients.                             *)
onClose(m, c) ==
    scheduleReconnect([m EXCEPT !.isConnected = FALSE,
                                !.clients = [i \in 1..(Len(@) - 1) |->
                                                IF i < c THEN @[i] ELSE @[i + 1]]])

(* MqttService.publish, lines 241-253: what a call can do.  Nothing is   *)
(* sent when the client is not connected; the client library may throw.  *)
publish(m) == IF ~m.isConnected THEN {"dropped"} ELSE {"sent", "throws"}

(* No status word has been read. *)
WordInit ==
    /\ statusWord = 0
    /\ flags = <<>>

BusSt ==
    [states |-> states, rawMqtt |-> rawMqtt, updateTimeout |-> updateTimeout,
     pendingUpdates |-> pendingUpdates, busTimers |-> busTimers, handles |-> handles,
     events |-> <<>>]

BusCommit(b) ==
    /\ states' = b.states
    /\ rawMqtt' = b.rawMqtt
    /\ updateTimeout' = b.updateTimeout
    /\ pendingUpdates' = b.pendingUpdates
    /\ busTimers' = b.busTimers
    /\ handles' = b.handles
    /\ events' = b.events

BusLog(b, e) == [b EXCEPT !.events = Append(@, e)]

(* setTimeout(callback, ms) *)
setTimeout(b, kind, ms) ==
    [b EXCEPT !.handles = @ + 1,
              !.busTimers = @ \cup {[h |-> b.handles + 1, kind |-> kind, ms |-> ms]}]

(* clearTimeout(handle) *)
clearTimeout(b, h) == [b EXCEPT !.busTimers = {t \in @ : t.h # h}]

parseMode(val) ==
    IF ~val.nan /\ val.n = 0 THEN "off"
    ELSE IF ~val.nan /\ val.n = 2 THEN "cooling"
    ELSE "unknown"

(* a ?? b *)
Coalesce(field, default) == IF field = <<>> THEN default ELSE field[1]

(* Lines 184-205: one element of the list pushToFrontend assembles. *)
FrontendState(b, s) ==
    LET id == Number(replace(s.id, AC_))
    IN [id |-> s.id,
        isOnline |-> Coalesce(s.isOnline, FALSE),
        mode |-> Coalesce(s.mode, ""),
        isOn |-> Coalesce(s.isOn, FALSE),
        setTemperature |-> Coalesce(s.setTemperature, Num(0)),
        fanSpeed |-> Coalesce(s.fanSpeed, Num(0)),
        temperature |-> Coalesce(s.temperature, Num(0)),
        waterTemperature |-> Coalesce(s.waterTemperature, Num(0)),
        pumpStatus |-> Coalesce(s.pumpStatus, FALSE),
        valveStatus |-> Coalesce(s.valveStatus, FALSE),
        errors |-> NoErrors,
        protectionState |-> 0,
        rawMqtt |-> IF ~id.nan /\ id.n \in DOMAIN b.rawMqtt
                    THEN b.rawMqtt[id.n]
                    ELSE [k \in TopicKeys |-> <<>>]]

(* Object.values(this.states): the keys are integers, so in ascending order. *)
RECURSIVE Ascending(_)
Ascending(S) ==
    IF S = {} THEN <<>>
    ELSE LET m == CHOOSE x \in S : \A y \in S : x <= y
         IN <<m>> \o Ascending(S \ {m})

(* The service is initialized and the gateway has registered itself       *)
(* (aircond.gateway.ts, constructor) before a message or a command is     *)
(* handled.                                                               *)
pushToFrontend(b) ==
    LET keys == Ascending(DOMAIN b.states)
    IN BusLog(b, [kind |-> "push",
                  list |-> [i \in 1..Len(keys) |-> FrontendState(b, b.states[keys[i]])]])

scheduleUpdate_KeepsTimer(b) ==
    LET b1 == setTimeout(b, "debounce", UPDATE_DELAY)
    IN [b1 EXCEPT !.updateTimeout = b1.handles]

scheduleUpdate(b) ==
    LET b0 == IF b.updateTimeout # NULL THEN clearTimeout(b, b.updateTimeout) ELSE b
        b1 == setTimeout(b0, "debounce", UPDATE_DELAY)
    IN [b1 EXCEPT !.updateTimeout = b1.handles]

(* The callback of the timer scheduleUpdate sets, lines 165-169. *)
updateCallback(b) ==
    [pushToFrontend(b) EXCEPT !.pendingUpdates = {}, !.updateTimeout = NULL]

(* Lines 119-142 *)
parseValue(state, key, value) ==
    CASE key = "mode" ->
           [state EXCEPT !.mode = <<parseMode(Number(value))>>,
                         !.isOn = <<Positive(Number(value))>>]
      [] key = "setpoint" -> [state EXCEPT !.setTemperature = <<Number(value)>>]
      [] key = "fanSpeed" -> [state EXCEPT !.fanSpeed = <<Number(value)>>]
      [] key = "temperature" -> [state EXCEPT !.temperature = <<Number(value)>>]
      [] key = "waterTemperature" -> [state EXCEPT !.waterTemperature = <<Number(value)>>]
      [] key = "pumpStatus" -> [state EXCEPT !.pumpStatus = <<value = <<"1">> >>]
      [] key = "valveStatus" -> [state EXCEPT !.valveStatus = <<MaskBit(Number(value), 9)>>]
      [] OTHER -> state

handleMqttMessage_Fresh(b, id, key, value) ==
    LET state == parseValue(NewPartialState(id), key, value)
        b1 == [b EXCEPT !.states[id] = [state EXCEPT !.isOnline = <<TRUE>>],
                        !.rawMqtt[id][key] = <<value>>,
                        !.pendingUpdates = @ \cup {id}]
    IN scheduleUpdate(b1)

handleMqttMessage(b, id, key, value) ==
    LET state == parseValue(b.states[id], key, value)
        b1 == [b EXCEPT !.states[id] = [state EXCEPT !.isOnline = <<TRUE>>],
                        !.rawMqtt[id][key] = <<value>>,
                        !.pendingUpdates = @ \cup {id}]
    IN scheduleUpdate(b1)

forceUpdate_KeepsTimer(b) ==
    [pushToFrontend(b) EXCEPT !.pendingUpdates = {}]

forceUpdate(b) ==
    LET b0 == IF b.updateTimeout # NULL
              THEN [clearTimeout(b, b.updateTimeout) EXCEPT !.updateTimeout = NULL]
              ELSE b
    IN [pushToFrontend(b0) EXCEPT !.pendingUpdates = {}]

(* MqttService.publish, part_003 lines 241-253: the message is sent, or   *)
(* nothing is done when the client is not connected; the client library   *)
(* may throw.  publishCommand is true unless publish throws.              *)
(* publishCommand if it asked for the connection state. *)
publishCommand_WhenConnected(b, key, id, value, outcome) ==
    [b |-> BusLog(b, [kind |-> "publish", key |-> key, id |-> id, value |-> value,
                      outcome |-> outcome]),
     success |-> outcome = "sent"]

(* aircond-mqtt.service.ts lines 259-270 *)
publishCommand(b, key, id, value, outcome) ==
    [b |-> BusLog(b, [kind |-> "publish", key |-> key, id |-> id, value |-> value,
                      outcome |-> outcome]),
     success |-> outcome # "throws"]

(* Lines 225-257.  The result is "true", "false" or "throws": AC_IDS[id]  *)
(* is undefined for an unknown id and reading its broker throws.          *)
mqttSetter(b, key, id, value, outcome) ==
    LET Result(b1, result) ==
            [b |-> BusLog(b1, [kind |-> "setterResult", id |-> id, result |-> result]),
             result |-> result]
    IN IF id \notin AC_IDS THEN Result(b, "throws")
       ELSE LET p == publishCommand(b, key, id, value, outcome)
            IN IF p.success
               THEN Result(setTimeout(p.b, "force", SETTLE_DELAY), "true")
               ELSE Result(p.b, "false")

(* isOn ? 2 : 0 on a number: 0 is false, any other number is true. *)
setPowerState(b, id, isOn, outcome) ==
    mqttSetter(b, "mode", id, IF isOn # 0 THEN 2 ELSE 0, outcome)

setTemperatureSetpoint(b, id, temperature, outcome) ==
    mqttSetter(b, "setpoint", id, temperature, outcome)

setFanSpeed(b, id, speed, outcome) ==
    mqttSetter(b, "fanSpeed", id, speed, outcome)

emit(b, name) == BusLog(b, [kind |-> "emit", name |-> name])

Commands == {"POWER", "SET_TEMPERATURE", "SET_FAN_SPEED"}

(* The part of handleCommand after the identifier is parsed.  payload.value *)
(* is a number.                                                           *)
dispatchCommand_Silent(b, deviceId, payload, outcome) ==
    IF payload.command \notin Commands THEN b
    ELSE LET b0 == BusLog(b, [kind |-> "setter", command |-> payload.command, id |-> deviceId])
             r == CASE payload.command = "POWER" ->
                         setPowerState(b0, deviceId, payload.value, outcome)
                    [] payload.command = "SET_TEMPERATURE" ->
                         setTemperatureSetpoint(b0, deviceId, payload.value, outcome)
                    [] payload.command = "SET_FAN_SPEED" ->
                         setFanSpeed(b0, deviceId, payload.value, outcome)
         IN IF r.result = "true" THEN emit(r.b, "commandSuccess")
            ELSE emit(r.b, "commandError")

dispatchCommand(b, deviceId, payload, outcome) ==
    IF payload.command \notin Commands THEN emit(b, "commandError")
    ELSE LET b0 == BusLog(b, [kind |-> "setter", command |-> payload.command, id |-> deviceId])
             r == CASE payload.command = "POWER" ->
                         setPowerState(b0, deviceId, payload.value, outcome)
                    [] payload.command = "SET_TEMPERATURE" ->
                         setTemperatureSetpoint(b0, deviceId, payload.value, outcome)
                    [] payload.command = "SET_FAN_SPEED" ->
                         setFanSpeed(b0, deviceId, payload.value, outcome)
         IN IF r.result = "true" THEN emit(r.b, "commandSuccess")
            ELSE emit(r.b, "commandError")

(* aircond.gateway.ts lines 77-118.  payload.deviceId is <<text>>, or <<>> *)
(* when the payload has no deviceId: replace on undefined throws.         *)
handleCommand(b, payload, outcome) ==
    IF payload.deviceId = <<>> THEN emit(b, "commandError")
    ELSE LET deviceId == parseInt(replace(payload.deviceId[1], AC_))
         IN IF deviceId.nan THEN emit(b, "commandError")
            ELSE dispatchCommand(b, deviceId.n, payload, outcome)

----------------------------------------------------------------------------
(* Initial state: the service after its constructor (lines 1176-1185). *)

Init ==
    /\ requestLock = FALSE
    /\ currentDeviceId = NULL
    /\ clientId = NULL
    /\ masterStats = ZeroStats
    /\ requestQueue = <<>>
    /\ isProcessingQueue = FALSE
    /\ isPolling = FALSE
    /\ isConnected = FALSE
    /\ devicesState = [d \in Devices |-> getInitialState(d)]
    /\ ctorConnect = "pending"
    /\ clock = 0
    /\ task = [t \in Tasks |-> IdleFrame]
    /\ timerOrder = <<>>
    /\ events = <<>>
    /\ calls = 0
    /\ resets = 0
    /\ waiters = {}
    /\ BusInit
    /\ MqttInit
    /\ WordInit
    /\ lim = [requests |-> MaxRequests, calls |-> MaxCalls, resets |-> MaxResets,
              queue |-> MaxQueue, messages |-> {{"expected address", "timeout"}, {"Timed out"}},
              callers |-> {6}, setIdThrows |-> {FALSE}, whole |-> {"poll"},
              failures |-> 0, values |-> RegisterValues, setterInputs |-> SetterInputs,
              pollers |-> {"poll"}, probeErrors |-> {{"Timeout"}}, registry |-> FALSE,
              log |-> FALSE, ctorLate |-> FALSE, ids |-> FALSE]

Env == <<ctorConnect, clock, calls, resets, lim>>

(* setTimeout: a timer created earlier with a delay that is not longer    *)
(* expires first.                                                         *)
CanFire(t) ==
    \E i \in 1..Len(timerOrder) :
        /\ timerOrder[i] = t
        /\ \A j \in 1..(i - 1) : task[timerOrder[j]].ms > task[t].ms

TimerOf(t, pc) == task[t].pc = pc /\ CanFire(t)

ExternalCall == calls < lim.calls /\ calls' = calls + 1

----------------------------------------------------------------------------
(* Steps of the executor *)

(* The bound on the protocol exchanges that complete; the successful      *)
(* exchanges of the handlers of lim.whole are not bounded, so that these  *)
(* handlers run to their end, and lim.failures of their exchanges may     *)
(* fail.                                                                   *)
CanComplete(t, success) ==
    \/ masterStats.totalRequests < lim.requests
    \/ t \in lim.whole /\ (success \/ masterStats.failedRequests < lim.failures)

(* The values a register read can answer with: for the read that confirms *)
(* a write, the written value or another one.                             *)
Responses(t) ==
    IF task[t].phase = "confirm" THEN {task[t].val, task[t].val - 2} ELSE lim.values

SwitchDelayElapsed(t) ==
    /\ TimerOf(t, "switching")
    /\ \E setIdThrows \in lim.setIdThrows : Commit(ExecSwitched(Wake(St, t), t, setIdThrows))
    /\ UNCHANGED Env

PreDelayElapsed(t) ==
    /\ TimerOf(t, "preDelay")
    /\ Commit(InvokeOp(Wake(St, t), t))
    /\ UNCHANGED Env

OperationResolves(t) ==
    /\ task[t].pc = "inOp"
    /\ CanComplete(t, TRUE)
    /\ \E val \in Responses(t) : Commit(OpSucceeded(St, t, val))
    /\ UNCHANGED Env

OperationRejects(t) ==
    /\ task[t].pc = "inOp"
    /\ CanComplete(t, FALSE)
    /\ \E errorMessage \in lim.messages : Commit(OpFailed(St, t, errorMessage))
    /\ UNCHANGED Env

PostDelayElapsed(t) ==
    /\ TimerOf(t, "postDelay")
    /\ Commit(NextAttempt(Wake(St, t), t))
    /\ UNCHANGED Env

----------------------------------------------------------------------------
(* Connection, lines 1234-1253 *)

connect(s, ok) ==
    IF ok THEN [s EXCEPT !.isConnected = TRUE]
    ELSE [s EXCEPT !.isConnected = FALSE, !.masterStats.connectionErrors = @ + 1]

CtorConnectDone ==
    /\ ctorConnect = "pending"
    /\ calls = 0 \/ lim.ctorLate
    /\ ctorConnect' = "done"
    /\ \E ok \in BOOLEAN : Commit(connect(St, ok))
    /\ UNCHANGED <<clock, calls, resets, lim>>

----------------------------------------------------------------------------
(* Poll cycle *)

Pollers == {"poll", "poll2"}

(* An invocation of pollDevices takes the first free frame. *)
FreePoller(p) ==
    /\ p \in lim.pollers
    /\ task[p].pc = "idle"
    /\ \A q \in lim.pollers : (q # p /\ task[q].pc = "idle") => p = "poll"

(* Lines 1570-1598: the timer or the poll-all endpoint calls pollDevices. *)
PollTrigger(p) ==
    /\ FreePoller(p)
    /\ ~isPolling
    /\ ExternalCall
    /\ IF isConnected THEN Commit(PollBegin(St, p))
       ELSE Commit(AwaitIO([St EXCEPT !.task[p].phase = "pollConnect"], p, "connecting"))
    /\ UNCHANGED <<ctorConnect, clock, resets, lim>>

(* Lines 1572-1575: a trigger during a cycle is dropped. *)
PollTriggerDropped ==
    /\ isPolling
    /\ ExternalCall
    /\ Commit(Log(St, [kind |-> "dropped", pre |-> Snap(St), post |-> Snap(St)]))
    /\ UNCHANGED <<ctorConnect, clock, resets, lim>>

(* Lines 1578-1585 *)
PollConnectDone(p) ==
    /\ task[p].pc = "connecting"
    /\ \E ok \in BOOLEAN :
          LET s1 == connect(St, ok)
          IN IF s1.isConnected THEN Commit(PollBegin(s1, p))
             ELSE Commit(Finish(Log(s1, [kind |-> "broadcastError", task |-> p]), p))
    /\ UNCHANGED Env

(* checkDeviceAvailability, lines 1549-1566: true when the probe request *)
(* resolved, false when it was rejected with errorMessage or timed out.   *)
checkDeviceAvailability(errorMessage) == errorMessage = NoMessage

PollProbeDone(p) ==
    /\ p \in Pollers
    /\ task[p].pc = "probe"
    /\ \E errorMessage \in {NoMessage} \cup lim.probeErrors : \E setIdThrows \in lim.setIdThrows :
          LET s0 == Log(St, [kind |-> "probe", task |-> p, dev |-> task[p].dev,
                             msg |-> errorMessage, pre |-> Snap(St)])
          IN Commit(PollProbed(s0, p, checkDeviceAvailability(errorMessage), setIdThrows))
    /\ UNCHANGED Env

PollGapElapsed(p) ==
    /\ TimerOf(p, "gap")
    /\ Commit(PollAfterGap(Wake(St, p), p))
    /\ UNCHANGED Env

PollDeviceGapElapsed(p) ==
    /\ TimerOf(p, "devGap")
    /\ Commit(PollDevice(Wake(St, p), p, task[p].n + 1))
    /\ UNCHANGED Env

----------------------------------------------------------------------------
(* Request queue *)

Enqueue ==
    /\ Len(requestQueue) < lim.queue
    /\ ExternalCall
    /\ \E now \in {clock, clock + 1} :
          /\ clock' = now
          /\ \E deviceId \in lim.callers : \E type \in {"read", "write"} : \E p \in Priorities :
                Commit(withPriority(St, [deviceId |-> deviceId, type |-> type, register |-> 1601,
                                         value |-> 2, priority |-> p, timestamp |-> 0,
                                         id |-> IF lim.ids THEN calls + 1 ELSE 0], now))
    /\ UNCHANGED <<ctorConnect, resets, lim>>

PriorityInterval ==
    /\ \E w \in waiters : Commit(priorityInterval(St, w))
    /\ UNCHANGED Env

(* startQueueProcessor, lines 1360-1366: one tick of the interval. *)
QueueTick ==
    /\ ~isProcessingQueue
    /\ Len(requestQueue) > 0
    /\ task["queue"].pc = "idle"
    /\ Commit(processRequestQueue(St, "queue"))
    /\ UNCHANGED Env

----------------------------------------------------------------------------
(* Setters and readRegistersBatch *)

CallSetter ==
    /\ task["setter"].pc = "idle"
    /\ ExternalCall
    /\ \E deviceId \in lim.callers : \E in \in lim.setterInputs :
          Commit(setter(St, "setter", deviceId, in))
    /\ UNCHANGED <<ctorConnect, clock, resets, lim>>

ConfirmDelayElapsed ==
    /\ TimerOf("setter", "confirmWait")
    /\ Commit(ExecStart(Wake(St, "setter"), "setter", task["setter"].dev, "confirm", 0))
    /\ UNCHANGED Env

UpdProbeDone ==
    /\ task["setter"].pc = "probe"
    /\ \E isAvailable \in BOOLEAN : Commit(UpdProbed(St, "setter", isAvailable))
    /\ UNCHANGED Env

(* POST refresh/:deviceId *)
CallRefresh ==
    /\ task["setter"].pc = "idle"
    /\ ExternalCall
    /\ \E deviceId \in lim.callers : Commit(refreshDeviceState(St, "setter", deviceId))
    /\ UNCHANGED <<ctorConnect, clock, resets, lim>>

CallBatch ==
    /\ task["batch"].pc = "idle"
    /\ ExternalCall
    /\ \E deviceId \in lim.callers : \E registers \in BatchInputs :
          Commit(readRegistersBatch(St, "batch", deviceId, registers))
    /\ UNCHANGED <<ctorConnect, clock, resets, lim>>

BatchSwitchElapsed ==
    /\ TimerOf("batch", "batchSwitching")
    /\ \E setIdThrows \in lim.setIdThrows : Commit(BatchSwitched(Wake(St, "batch"), "batch", setIdThrows))
    /\ UNCHANGED Env

----------------------------------------------------------------------------
(* resetStats, lines 2158-2173 *)

resetStats(s) ==
    [s EXCEPT !.masterStats = ZeroStats, !.requestQueue = <<>>,
              !.currentDeviceId = NULL, !.requestLock = FALSE]

ResetStats ==
    /\ resets < lim.resets
    /\ resets' = resets + 1
    /\ Commit(resetStats(St))
    /\ UNCHANGED <<ctorConnect, clock, calls, lim>>

----------------------------------------------------------------------------

Next ==
    \/ \E t \in Tasks : SwitchDelayElapsed(t)
    \/ \E t \in Tasks : PreDelayElapsed(t)
    \/ \E t \in Tasks : OperationResolves(t)
    \/ \E t \in Tasks : OperationRejects(t)
    \/ \E t \in Tasks : PostDelayElapsed(t)
    \/ CtorConnectDone
    \/ \E p \in Pollers : PollTrigger(p)
    \/ PollTriggerDropped
    \/ \E p \in Pollers : PollConnectDone(p)
    \/ \E p \in Pollers : PollProbeDone(p)
    \/ \E p \in Pollers : PollGapElapsed(p)
    \/ \E p \in Pollers : PollDeviceGapElapsed(p)
    \/ Enqueue
    \/ QueueTick
    \/ CallSetter
    \/ ConfirmDelayElapsed
    \/ UpdProbeDone
    \/ CallBatch
    \/ BatchSwitchElapsed
    \/ ResetStats

Spec == Init /\ [][Next]_vars

----------------------------------------------------------------------------
(* The executor and the arbiter under the queue consumer and              *)
(* readRegistersBatch, with every step recorded in events.                *)

InitExec ==
    /\ requestLock = FALSE
    /\ currentDeviceId = NULL
    /\ clientId = NULL
    /\ masterStats = ZeroStats
    /\ requestQueue = <<>>
    /\ isProcessingQueue = FALSE
    /\ isPolling = FALSE
    /\ isConnected = FALSE
    /\ devicesState = [d \in Devices |-> getInitialState(d)]
    /\ ctorConnect = "pending"
    /\ clock = 0
    /\ task = [t \in Tasks |-> IdleFrame]
    /\ timerOrder = <<>>
    /\ events = <<>>
    /\ calls = 0
    /\ resets = 0
    /\ waiters = {}
    /\ BusInit
    /\ MqttInit
    /\ WordInit
    /\ lim = [requests |-> ExecMaxRequests, calls |-> ExecMaxCalls, resets |-> 0,
              queue |-> ExecMaxQueue, messages |-> ErrorMessages,
              callers |-> {5, 6}, setIdThrows |-> BOOLEAN, whole |-> {},
              failures |-> 0, values |-> RegisterValues, setterInputs |-> SetterInputs,
              pollers |-> {"poll"}, probeErrors |-> {{"Timeout"}}, registry |-> FALSE,
              log |-> TRUE, ctorLate |-> FALSE, ids |-> FALSE]

NextExec ==
    \/ \E t \in Tasks : SwitchDelayElapsed(t)
    \/ \E t \in Tasks : PreDelayElapsed(t)
    \/ \E t \in Tasks : OperationResolves(t)
    \/ \E t \in Tasks : OperationRejects(t)
    \/ \E t \in Tasks : PostDelayElapsed(t)
    \/ Enqueue
    \/ QueueTick
    \/ CallBatch
    \/ BatchSwitchElapsed

SpecExec == InitExec /\ [][NextExec]_vars

(* A timer that is set elapses and an exchange on the link ends: the     *)
(* event loop runs a continuation that is ready.                          *)
LinkStep ==
    \/ \E t \in Tasks : SwitchDelayElapsed(t)
    \/ \E t \in Tasks : PreDelayElapsed(t)
    \/ \E t \in Tasks : OperationResolves(t)
    \/ \E t \in Tasks : OperationRejects(t)
    \/ \E t \in Tasks : PostDelayElapsed(t)
    \/ BatchSwitchElapsed

(* The condition under which LinkStep can be taken. *)
LinkReady ==
    \/ \E t \in Tasks : \E pc \in {"switching", "preDelay", "postDelay"} : TimerOf(t, pc)
    \/ TimerOf("batch", "batchSwitching")
    \/ \E t \in Tasks : task[t].pc = "inOp" /\ (CanComplete(t, TRUE) \/ CanComplete(t, FALSE))

(* Weak fairness of LinkStep, WF_vars(LinkStep), with its enabling        *)
(* condition written out.                                                 *)
LinkFairness == []<>(~LinkReady) \/ []<><<LinkStep>>_vars

SpecExecFair == SpecExec /\ LinkFairness


----------------------------------------------------------------------------
(* The setters with their confirmation read and the refresh of the        *)
(* registry, beside readRegistersBatch.                                   *)

InitSetter ==
    /\ requestLock = FALSE
    /\ currentDeviceId = NULL
    /\ clientId = NULL
    /\ masterStats = ZeroStats
    /\ requestQueue = <<>>
    /\ isProcessingQueue = FALSE
    /\ isPolling = FALSE
    /\ isConnected = FALSE
    /\ devicesState = [d \in Devices |-> getInitialState(d)]
    /\ ctorConnect = "pending"
    /\ clock = 0
    /\ task = [t \in Tasks |-> IdleFrame]
    /\ timerOrder = <<>>
    /\ events = <<>>
    /\ calls = 0
    /\ resets = 0
    /\ waiters = {}
    /\ BusInit
    /\ MqttInit
    /\ WordInit
    /\ lim = [requests |-> SetMaxRequests, calls |-> SetMaxCalls, resets |-> 0,
              queue |-> 0, messages |-> {{"timeout"}},
              callers |-> {5, 6}, setIdThrows |-> {FALSE}, whole |-> {"setter"},
              failures |-> SetMaxFailures, values |-> {4}, setterInputs |-> AllSetterInputs,
              pollers |-> {}, probeErrors |-> {{"Timeout"}}, registry |-> TRUE,
              log |-> TRUE, ctorLate |-> FALSE, ids |-> FALSE]

NextSetter ==
    \/ \E t \in Tasks : SwitchDelayElapsed(t)
    \/ \E t \in Tasks : PreDelayElapsed(t)
    \/ \E t \in Tasks : OperationResolves(t)
    \/ \E t \in Tasks : OperationRejects(t)
    \/ \E t \in Tasks : PostDelayElapsed(t)
    \/ CallSetter
    \/ ConfirmDelayElapsed
    \/ UpdProbeDone
    \/ CallBatch
    \/ BatchSwitchElapsed

SpecSetter == InitSetter /\ [][NextSetter]_vars

----------------------------------------------------------------------------
(* The request queue with its callers: requests that carry their identity, *)
(* several requests waiting, the consumer's ticks and the callers'        *)
(* intervals in every order.                                              *)

InitQueue ==
    /\ requestLock = FALSE
    /\ currentDeviceId = NULL
    /\ clientId = NULL
    /\ masterStats = ZeroStats
    /\ requestQueue = <<>>
    /\ isProcessingQueue = FALSE
    /\ isPolling = FALSE
    /\ isConnected = FALSE
    /\ devicesState = [d \in Devices |-> getInitialState(d)]
    /\ ctorConnect = "pending"
    /\ clock = 0
    /\ task = [t \in Tasks |-> IdleFrame]
    /\ timerOrder = <<>>
    /\ events = <<>>
    /\ calls = 0
    /\ resets = 0
    /\ waiters = {}
    /\ BusInit
    /\ MqttInit
    /\ WordInit
    /\ lim = [requests |-> 0, calls |-> QueueMaxCalls, resets |-> 0,
              queue |-> QueueMaxQueue, messages |-> {{"timeout"}},
              callers |-> {5}, setIdThrows |-> {FALSE}, whole |-> {"queue"},
              failures |-> QueueMaxFailures, values |-> {2}, setterInputs |-> {},
              pollers |-> {}, probeErrors |-> {{"Timeout"}}, registry |-> FALSE,
              log |-> TRUE, ctorLate |-> FALSE, ids |-> TRUE]

NextQueue ==
    \/ \E t \in Tasks : SwitchDelayElapsed(t)
    \/ \E t \in Tasks : PreDelayElapsed(t)
    \/ \E t \in Tasks : OperationResolves(t)
    \/ \E t \in Tasks : OperationRejects(t)
    \/ \E t \in Tasks : PostDelayElapsed(t)
    \/ Enqueue
    \/ QueueTick
    \/ PriorityInterval

SpecQueue == InitQueue /\ [][NextQueue]_vars

(* The consumer's interval keeps ticking (lines 1360-1366) and every      *)
(* execute call terminates.                                               *)
QueueStep == LinkStep \/ QueueTick

QueueReady ==
    \/ LinkReady
    \/ ~isProcessingQueue /\ Len(requestQueue) > 0 /\ task["queue"].pc = "idle"

QueueFairness == []<>(~QueueReady) \/ []<><<QueueStep>>_vars

(* The queue and its consumer alone: requests are enqueued while the      *)
(* consumer works, exchanges fail and are retried.                        *)
DrainMaxCalls == 3       \* calls of read/writeRegisterWithPriority in SpecDrain
DrainMaxQueue == 3       \* length of the request queue in SpecDrain
DrainMaxFailures == 2    \* failed exchanges in SpecDrain

InitDrain ==
    /\ requestLock = FALSE
    /\ currentDeviceId = NULL
    /\ clientId = NULL
    /\ masterStats = ZeroStats
    /\ requestQueue = <<>>
    /\ isProcessingQueue = FALSE
    /\ isPolling = FALSE
    /\ isConnected = FALSE
    /\ devicesState = [d \in Devices |-> getInitialState(d)]
    /\ ctorConnect = "pending"
    /\ clock = 0
    /\ task = [t \in Tasks |-> IdleFrame]
    /\ timerOrder = <<>>
    /\ events = <<>>
    /\ calls = 0
    /\ resets = 0
    /\ waiters = {}
    /\ BusInit
    /\ MqttInit
    /\ WordInit
    /\ lim = [requests |-> 0, calls |-> DrainMaxCalls, resets |-> 0,
              queue |-> DrainMaxQueue, messages |-> {{"timeout"}},
              callers |-> {5, 6}, setIdThrows |-> {FALSE}, whole |-> {"queue"},
              failures |-> DrainMaxFailures, values |-> {2}, setterInputs |-> {},
              pollers |-> {}, probeErrors |-> {{"Timeout"}}, registry |-> FALSE,
              log |-> TRUE, ctorLate |-> FALSE, ids |-> FALSE]

NextDrain ==
    \/ \E t \in Tasks : SwitchDelayElapsed(t)
    \/ \E t \in Tasks : PreDelayElapsed(t)
    \/ \E t \in Tasks : OperationResolves(t)
    \/ \E t \in Tasks : OperationRejects(t)
    \/ \E t \in Tasks : PostDelayElapsed(t)
    \/ Enqueue
    \/ QueueTick

SpecDrain == InitDrain /\ [][NextDrain]_vars

SpecDrainFair == SpecDrain /\ QueueFairness

----------------------------------------------------------------------------
(* Poll cycles one after the other, with the registry and the list each   *)
(* cycle broadcasts.                                                      *)

InitPoll ==
    /\ requestLock = FALSE
    /\ currentDeviceId = NULL
    /\ clientId = NULL
    /\ masterStats = ZeroStats
    /\ requestQueue = <<>>
    /\ isProcessingQueue = FALSE
    /\ isPolling = FALSE
    /\ isConnected = FALSE
    /\ devicesState = [d \in Devices |-> getInitialState(d)]
    /\ ctorConnect = "pending"
    /\ clock = 0
    /\ task = [t \in Tasks |-> IdleFrame]
    /\ timerOrder = <<>>
    /\ events = <<>>
    /\ calls = 0
    /\ resets = 0
    /\ waiters = {}
    /\ BusInit
    /\ MqttInit
    /\ WordInit
    /\ lim = [requests |-> 0, calls |-> PollMaxCalls, resets |-> 0,
              queue |-> 0, messages |-> {{"Unexpected data error", "expected address"}},
              callers |-> {}, setIdThrows |-> {FALSE}, whole |-> {"poll"},
              failures |-> PollMaxFailures, values |-> {4}, setterInputs |-> {},
              pollers |-> {"poll"},
              probeErrors |-> {{"Timeout"}, {"Unexpected data error", "expected address"}},
              registry |-> TRUE, log |-> TRUE, ctorLate |-> TRUE, ids |-> FALSE]

NextPoll ==
    \/ \E t \in Tasks : SwitchDelayElapsed(t)
    \/ \E t \in Tasks : PreDelayElapsed(t)
    \/ \E t \in Tasks : OperationResolves(t)
    \/ \E t \in Tasks : OperationRejects(t)
    \/ \E t \in Tasks : PostDelayElapsed(t)
    \/ CtorConnectDone
    \/ \E p \in Pollers : PollTrigger(p)
    \/ PollTriggerDropped
    \/ \E p \in Pollers : PollConnectDone(p)
    \/ \E p \in Pollers : PollProbeDone(p)
    \/ \E p \in Pollers : PollGapElapsed(p)
    \/ \E p \in Pollers : PollDeviceGapElapsed(p)

SpecPoll == InitPoll /\ [][NextPoll]_vars

(* The steps of a cycle that need no caller: an exchange or a connection *)
(* attempt that terminates, a timer that expires.                        *)
PollStep ==
    \/ LinkStep
    \/ \E p \in Pollers : PollConnectDone(p)
    \/ \E p \in Pollers : PollProbeDone(p)
    \/ \E p \in Pollers : PollGapElapsed(p)
    \/ \E p \in Pollers : PollDeviceGapElapsed(p)

PollReady ==
    \/ LinkReady
    \/ \E p \in Pollers : task[p].pc \in {"connecting", "probe"}
    \/ \E p \in Pollers : TimerOf(p, "gap") \/ TimerOf(p, "devGap")

(* Every exchange and every timer wait terminates. *)
PollFairness == []<>(~PollReady) \/ []<><<PollStep>>_vars

SpecPollFair == SpecPoll /\ PollFairness

----------------------------------------------------------------------------
(* Triggers of pollDevices that arrive whenever they like: the timer and  *)
(* the poll-all endpoint, each with its own invocation.                   *)

InitTrigger ==
    /\ requestLock = FALSE
    /\ currentDeviceId = NULL
    /\ clientId = NULL
    /\ masterStats = ZeroStats
    /\ requestQueue = <<>>
    /\ isProcessingQueue = FALSE
    /\ isPolling = FALSE
    /\ isConnected = FALSE
    /\ devicesState = [d \in Devices |-> getInitialState(d)]
    /\ ctorConnect = "pending"
    /\ clock = 0
    /\ task = [t \in Tasks |-> IdleFrame]
    /\ timerOrder = <<>>
    /\ events = <<>>
    /\ calls = 0
    /\ resets = 0
    /\ waiters = {}
    /\ BusInit
    /\ MqttInit
    /\ WordInit
    /\ lim = [requests |-> 0, calls |-> TrigMaxCalls, resets |-> 0,
              queue |-> 0, messages |-> {{"Timed out"}},
              callers |-> {}, setIdThrows |-> {FALSE}, whole |-> {"poll", "poll2"},
              failures |-> 0, values |-> {4}, setterInputs |-> {},
              pollers |-> {"poll", "poll2"}, probeErrors |-> {{"Timeout"}},
              registry |-> FALSE, log |-> FALSE, ctorLate |-> FALSE, ids |-> FALSE]

(* The link answers every request. *)
NextTrigger ==
    \/ \E t \in Tasks : SwitchDelayElapsed(t)
    \/ \E t \in Tasks : OperationResolves(t)
    \/ CtorConnectDone
    \/ \E p \in Pollers : PollTrigger(p)
    \/ PollTriggerDropped
    \/ \E p \in Pollers : PollConnectDone(p)
    \/ \E p \in Pollers : PollProbeDone(p)
    \/ \E p \in Pollers : PollGapElapsed(p)
    \/ \E p \in Pollers : PollDeviceGapElapsed(p)

SpecTrigger == InitTrigger /\ [][NextTrigger]_vars

----------------------------------------------------------------------------
(* The bus channel alone: inbound messages, commands of the operators and *)
(* the two kinds of timer of the aggregator.                              *)

BusMaxCalls == 3

Text(str) == CASE str = "" -> <<>>
               [] str = "0" -> <<"0">>
               [] str = "1" -> <<"1">>
               [] str = "2" -> <<"2">>
               [] str = "22" -> <<"2", "2">>
               [] str = "44" -> <<"4", "4">>
               [] str = "512" -> <<"5", "1", "2">>
               [] str = "-1" -> <<"-", "1">>
               [] str = "on" -> <<"o", "n">>
               [] str = "7" -> <<"7">>
               [] str = "AC_5" -> <<"A", "C", "_", "5">>
               [] str = "AC_9" -> <<"A", "C", "_", "9">>
               [] str = "AC_x" -> <<"A", "C", "_", "x">>

(* The messages the broker delivers in the model. *)
BusMessages ==
    {[id |-> 5, key |-> "mode", value |-> Text("2")],
     [id |-> 5, key |-> "mode", value |-> Text("0")],
     [id |-> 5, key |-> "temperature", value |-> Text("44")],
     [id |-> 6, key |-> "waterTemperature", value |-> Text("-1")],
     [id |-> 6, key |-> "setpoint", value |-> Text("22")],
     [id |-> 7, key |-> "fanSpeed", value |-> Text("on")],
     [id |-> 6, key |-> "pumpStatus", value |-> Text("1")],
     [id |-> 5, key |-> "valveStatus", value |-> Text("512")],
     [id |-> 5, key |-> "valveStatus", value |-> Text("-1")],
     [id |-> 5, key |-> "valveStatus", value |-> Text("1")]}

(* The payloads the operators send in the model. *)
Payloads ==
    {[deviceId |-> d, command |-> c.command, value |-> c.value] :
        d \in {<<Text("AC_5")>>, <<Text("7")>>, <<Text("AC_9")>>, <<Text("AC_x")>>, <<>>},
        c \in {[command |-> "POWER", value |-> 1],
               [command |-> "POWER", value |-> 0],
               [command |-> "SET_TEMPERATURE", value |-> 22],
               [command |-> "SET_FAN_SPEED", value |-> 2],
               [command |-> "RESET", value |-> 0]}}

(* Timers run in the order of their expiry: a timer set earlier with a    *)
(* delay that is not longer runs first.                                   *)
BusCanFire(t) == \A u \in busTimers : ~(u.h < t.h /\ u.ms <= t.ms)

(* The callback subscribeToTopics registers, lines 102-105. *)
BusMessage ==
    /\ ExternalCall
    /\ \E m \in BusMessages :
          BusCommit(handleMqttMessage(
              BusLog(BusSt, [kind |-> "message", id |-> m.id, key |-> m.key,
                             value |-> m.value, states |-> states,
                             updateTimeout |-> updateTimeout]),
              m.id, m.key, m.value))
    /\ UNCHANGED <<linkVars, wordVars, mqttVars>>

(* The timer of scheduleUpdate elapses. *)
DebounceElapsed ==
    /\ \E t \in busTimers :
          /\ t.kind = "debounce"
          /\ BusCanFire(t)
          /\ BusCommit(updateCallback(
                 BusLog([BusSt EXCEPT !.busTimers = @ \ {t}],
                        [kind |-> "elapsed", timer |-> t, updateTimeout |-> updateTimeout,
                         pendingUpdates |-> pendingUpdates])))
    /\ UNCHANGED <<linkVars, wordVars, mqttVars, calls>>

(* The timer a setter sets elapses: forceUpdate. *)
ForceElapsed ==
    /\ \E t \in busTimers :
          /\ t.kind = "force"
          /\ BusCanFire(t)
          /\ BusCommit(forceUpdate(
                 BusLog([BusSt EXCEPT !.busTimers = @ \ {t}],
                        [kind |-> "elapsed", timer |-> t, updateTimeout |-> updateTimeout,
                         pendingUpdates |-> pendingUpdates])))
    /\ UNCHANGED <<linkVars, wordVars, mqttVars, calls>>

(* A command of an operator arrives at AircondGateway. *)
HandleCommand ==
    /\ ExternalCall
    /\ \E payload \in Payloads : \E outcome \in publish(mqtt) :
          BusCommit(handleCommand(
              BusLog(BusSt, [kind |-> "command", payload |-> payload,
                             busTimers |-> busTimers]),
              payload, outcome))
    /\ UNCHANGED <<linkVars, wordVars, mqttVars>>

MqttCommit(m, e) ==
    /\ mqtt' = m
    /\ events' = <<e>>
    /\ UNCHANGED <<linkVars, busVars, wordVars, calls>>

(* A client that is connecting gets its CONNACK. *)
BrokerConnect ==
    \E c \in DOMAIN mqtt.clients :
        /\ mqtt.clients[c] = "connecting"
        /\ MqttCommit(onConnect(mqtt, c), [kind |-> "connect", client |-> c, was |-> mqtt])

(* A client reports an error or goes offline. *)
BrokerError ==
    /\ mqtt.clients # <<>>
    /\ MqttCommit(onError(mqtt), [kind |-> "error", was |-> mqtt])

(* The connection of a client closes, or its connection attempt fails. *)
BrokerClose ==
    \E c \in DOMAIN mqtt.clients :
        MqttCommit(onClose(mqtt, c), [kind |-> "close", client |-> c, was |-> mqtt])

(* The timer of scheduleReconnect elapses, lines 189-192. *)
ReconnectElapsed ==
    /\ mqtt.timers # <<>>
    /\ MqttCommit(connectToBroker([mqtt EXCEPT !.timers = Tail(@)]),
                  [kind |-> "reconnect", delay |-> Head(mqtt.timers), was |-> mqtt])

InitBus ==
    /\ requestLock = FALSE
    /\ currentDeviceId = NULL
    /\ clientId = NULL
    /\ masterStats = ZeroStats
    /\ requestQueue = <<>>
    /\ isProcessingQueue = FALSE
    /\ isPolling = FALSE
    /\ isConnected = FALSE
    /\ devicesState = [d \in Devices |-> getInitialState(d)]
    /\ ctorConnect = "pending"
    /\ clock = 0
    /\ task = [t \in Tasks |-> IdleFrame]
    /\ timerOrder = <<>>
    /\ events = <<>>
    /\ calls = 0
    /\ resets = 0
    /\ waiters = {}
    /\ BusInit
    /\ mqtt \in {MqttStart, onConnect(MqttStart, 1)}
    /\ WordInit
    /\ lim = [requests |-> 0, calls |-> BusMaxCalls, resets |-> 0,
              queue |-> 0, messages |-> {{"timeout"}},
              callers |-> {}, setIdThrows |-> {FALSE}, whole |-> {},
              failures |-> 0, values |-> {2}, setterInputs |-> {},
              pollers |-> {}, probeErrors |-> {{"Timeout"}}, registry |-> FALSE,
              log |-> TRUE, ctorLate |-> FALSE, ids |-> FALSE]

NextBus ==
    \/ BusMessage
    \/ DebounceElapsed
    \/ ForceElapsed
    \/ HandleCommand

SpecBus == InitBus /\ [][NextBus]_vars

(* The bus client from its start, with the commands of the operators. *)
MqttMaxCalls == 2

InitMqtt ==
    /\ requestLock = FALSE
    /\ currentDeviceId = NULL
    /\ clientId = NULL
    /\ masterStats = ZeroStats
    /\ requestQueue = <<>>
    /\ isProcessingQueue = FALSE
    /\ isPolling = FALSE
    /\ isConnected = FALSE
    /\ devicesState = [d \in Devices |-> getInitialState(d)]
    /\ ctorConnect = "pending"
    /\ clock = 0
    /\ task = [t \in Tasks |-> IdleFrame]
    /\ timerOrder = <<>>
    /\ events = <<>>
    /\ calls = 0
    /\ resets = 0
    /\ waiters = {}
    /\ BusInit
    /\ MqttInit
    /\ WordInit
    /\ lim = [requests |-> 0, calls |-> MqttMaxCalls, resets |-> 0,
              queue |-> 0, messages |-> {{"timeout"}},
              callers |-> {}, setIdThrows |-> {FALSE}, whole |-> {},
              failures |-> 0, values |-> {2}, setterInputs |-> {},
              pollers |-> {}, probeErrors |-> {{"Timeout"}}, registry |-> FALSE,
              log |-> TRUE, ctorLate |-> FALSE, ids |-> FALSE]

NextMqtt ==
    \/ BrokerConnect
    \/ BrokerError
    \/ BrokerClose
    \/ ReconnectElapsed
    \/ HandleCommand
    \/ ForceElapsed

SpecMqtt == InitMqtt /\ [][NextMqtt]_vars

----------------------------------------------------------------------------
(* The decoders of the status registers on every 16-bit value.            *)

WordBits == 16
DecodeMaxCalls == 1

(* What getPumpStatus, getValveStatus and getErrors make of the register  *)
(* value w, and what handleMqttMessage makes of the text of w on the      *)
(* valve topic.                                                           *)
DecodeFlags(w) ==
    [pumpStatus |-> GetterResult(6, "ok", w).v,
     valveStatus |-> GetterResult(7, "ok", w).v,
     errors |-> GetterResult(8, "ok", w).v,
     busValveStatus |-> parseValue(NewPartialState(5), "valveStatus", Template(w)).valveStatus[1]]

(* The register is read and decoded. *)
ReadStatusWord ==
    /\ flags = <<>>
    /\ flags' = <<DecodeFlags(statusWord)>>
    /\ events' = <<>>
    /\ UNCHANGED <<linkVars, busVars, mqttVars, calls, statusWord>>

(* One bit of the register changes and the register is decoded again. *)
ToggleBit ==
    /\ flags # <<>>
    /\ ExternalCall
    /\ \E k \in 0..(WordBits - 1) :
          /\ statusWord' = IF Bit(statusWord, k) THEN statusWord - 2 ^ k ELSE statusWord + 2 ^ k
          /\ flags' = <<DecodeFlags(statusWord')>>
          /\ events' = <<[kind |-> "toggle", bit |-> k, flags |-> flags[1]]>>
    /\ UNCHANGED <<linkVars, busVars, mqttVars>>

InitDecode ==
    /\ requestLock = FALSE
    /\ currentDeviceId = NULL
    /\ clientId = NULL
    /\ masterStats = ZeroStats
    /\ requestQueue = <<>>
    /\ isProcessingQueue = FALSE
    /\ isPolling = FALSE
    /\ isConnected = FALSE
    /\ devicesState = [d \in Devices |-> getInitialState(d)]
    /\ ctorConnect = "pending"
    /\ clock = 0
    /\ task = [t \in Tasks |-> IdleFrame]
    /\ timerOrder = <<>>
    /\ events = <<>>
    /\ calls = 0
    /\ resets = 0
    /\ waiters = {}
    /\ BusInit
    /\ MqttInit
    /\ statusWord \in 0..(2 ^ WordBits - 1)
    /\ flags = <<>>
    /\ lim = [requests |-> 0, calls |-> DecodeMaxCalls, resets |-> 0,
              queue |-> 0, messages |-> {{"timeout"}},
              callers |-> {}, setIdThrows |-> {FALSE}, whole |-> {},
              failures |-> 0, values |-> {2}, setterInputs |-> {},
              pollers |-> {}, probeErrors |-> {{"Timeout"}}, registry |-> FALSE,
              log |-> TRUE, ctorLate |-> FALSE, ids |-> FALSE]

NextDecode ==
    \/ ReadStatusWord
    \/ ToggleBit

SpecDecode == InitDecode /\ [][NextDecode]_vars

----------------------------------------------------------------------------
(* The refresh endpoint, for a configured device and for device 9, which  *)
(* is not configured but may answer on the link.                          *)

RefreshMaxCalls == 2
RefreshMaxFailures == 3

InitRefresh ==
    /\ requestLock = FALSE
    /\ currentDeviceId = NULL
    /\ clientId = NULL
    /\ masterStats = ZeroStats
    /\ requestQueue = <<>>
    /\ isProcessingQueue = FALSE
    /\ isPolling = FALSE
    /\ isConnected = FALSE
    /\ devicesState = [d \in Devices |-> getInitialState(d)]
    /\ ctorConnect = "pending"
    /\ clock = 0
    /\ task = [t \in Tasks |-> IdleFrame]
    /\ timerOrder = <<>>
    /\ events = <<>>
    /\ calls = 0
    /\ resets = 0
    /\ waiters = {}
    /\ BusInit
    /\ MqttInit
    /\ WordInit
    /\ lim = [requests |-> 0, calls |-> RefreshMaxCalls, resets |-> 0,
              queue |-> 0, messages |-> {{"timeout"}},
              callers |-> {5, 9}, setIdThrows |-> {FALSE}, whole |-> {"setter"},
              failures |-> RefreshMaxFailures, values |-> {4}, setterInputs |-> {},
              pollers |-> {}, probeErrors |-> {{"Timeout"}}, registry |-> TRUE,
              log |-> TRUE, ctorLate |-> FALSE, ids |-> FALSE]

NextRefresh ==
    \/ \E t \in Tasks : SwitchDelayElapsed(t)
    \/ \E t \in Tasks : PreDelayElapsed(t)
    \/ \E t \in Tasks : OperationResolves(t)
    \/ \E t \in Tasks : OperationRejects(t)
    \/ \E t \in Tasks : PostDelayElapsed(t)
    \/ CallRefresh
    \/ UpdProbeDone

SpecRefresh == InitRefresh /\ [][NextRefresh]_vars

----------------------------------------------------------------------------
(* Properties *)

Switching == {t \in Tasks : task[t].pc \in {"switching", "batchSwitching"}}

EventIdx == 1..Len(events)

(* C1: at most one address switch is in progress at any time: while one   *)
(* call of switchToDevice holds the busy flag and waits out its settle    *)
(* delay, no other call passes the busy check and begins its own switch,  *)
(* also when resetStats is called during the delay.                       *)
C1_OneSwitchAtATime == Cardinality(Switching) <= 1

(* C2: whenever the executor invokes the operation of a call made for     *)
(* device d, the address set on the protocol client is d; at attempt 0    *)
(* and at every retry attempt.                                            *)
C2_OperationSentToItsDevice ==
    \A t \in Tasks : task[t].pc = "inOp" => task[t].sent = task[t].dev

(* C3: whenever currentDeviceId is not null, the address last set on the  *)
(* protocol client equals currentDeviceId.                                *)
C3_ClientAddressIsActiveDevice ==
    currentDeviceId # NULL => clientId = currentDeviceId

IsEvent(i, k) == events[i].kind = k

(* C4: an acquire issued while a switch is in progress returns failure at *)
(* once, whatever device it asks for: it does not wait, and it leaves the *)
(* busy flag, the active device and the client address as they were.      *)
C4_BusyAcquireFailsAtOnce ==
    \A i \in EventIdx :
        (IsEvent(i, "acquire") /\ events[i].pre.lock) =>
            /\ events[i].res = "false"
            /\ events[i].post = events[i].pre
            /\ events[i].task \notin Switching

(* An acquire for the active device was refused while another handler was *)
(* switching to a different device.                                       *)
C4_Witness ==
    \E i \in EventIdx :
        /\ IsEvent(i, "acquire") /\ events[i].pre.lock
        /\ events[i].dev = events[i].pre.cur
        /\ \E u \in Switching : task[u].dev # events[i].dev

(* C5: an acquire for the device that is already active, issued while no  *)
(* switch is in progress, succeeds at once: no busy flag, no settle       *)
(* delay, no client address set, currentDeviceId unchanged.               *)
C5_ActiveDeviceAcquiredAtOnce ==
    \A i \in EventIdx :
        (IsEvent(i, "acquire") /\ ~events[i].pre.lock /\ events[i].pre.cur = events[i].dev) =>
            /\ events[i].res = "true"
            /\ events[i].post = events[i].pre
            /\ events[i].task \notin Switching

C5_Witness ==
    \E i \in EventIdx :
        /\ IsEvent(i, "acquire") /\ ~events[i].pre.lock
        /\ events[i].pre.cur = events[i].dev
        /\ events[i].res = "true"

(* C6: every call of the executor completes by returning the result of    *)
(* the operation or null; no exception of the operation or of the switch  *)
(* reaches the caller.                                                    *)
C6_ExecutorNeverThrows ==
    \A i \in EventIdx : IsEvent(i, "return") => events[i].res \in {"ok", "null"}

(* The operation rejected at the last attempt and the call returned null. *)
C6_Witness ==
    \E i \in EventIdx :
        /\ i > 1
        /\ IsEvent(i, "return") /\ events[i].res = "null"
        /\ IsEvent(i - 1, "fail") /\ events[i - 1].task = events[i].task

(* C7: a call whose operation fails on its first k invocations and        *)
(* succeeds on invocation k+1 (k in 0..MAX_RETRIES) returns the result,   *)
(* has invoked the operation k+1 times and has added k failures, one      *)
(* success and k+1 to the total.                                          *)
C7_SuccessAfterKFailures ==
    \A i \in EventIdx :
        (IsEvent(i, "return") /\ events[i].res = "ok") =>
            LET k == events[i].attempt
            IN /\ k \in 0..MAX_RETRIES
               /\ events[i].inv = k + 1
               /\ events[i].dFail = k
               /\ events[i].dOk = 1
               /\ events[i].dTotal = k + 1

(* Failure on attempts 0 and 1, success on attempt 2. *)
C7_Witness ==
    \E i \in EventIdx :
        /\ IsEvent(i, "return") /\ events[i].res = "ok"
        /\ events[i].attempt = 2 /\ events[i].dFail = 2 /\ events[i].dOk = 1

(* C8: a call whose operation fails on every invocation invokes it        *)
(* MAX_RETRIES+1 times and never more, returns null, and adds             *)
(* MAX_RETRIES+1 to the failed and total counters and nothing to the      *)
(* success counter.                                                       *)
C8_AllAttemptsFail ==
    /\ \A t \in Tasks : task[t].inv <= MAX_RETRIES + 1
    /\ \A i \in EventIdx :
          (IsEvent(i, "return") /\ events[i].res # "ok" /\ ~events[i].acqFailed) =>
              /\ events[i].res = "null"
              /\ events[i].attempt = MAX_RETRIES
              /\ events[i].inv = MAX_RETRIES + 1
              /\ events[i].dFail = MAX_RETRIES + 1
              /\ events[i].dTotal = MAX_RETRIES + 1
              /\ events[i].dOk = 0

C8_Witness ==
    \E i \in EventIdx :
        /\ IsEvent(i, "return") /\ ~events[i].acqFailed
        /\ events[i].res = "null" /\ events[i].inv = MAX_RETRIES + 1

(* C9: when the acquisition fails at an attempt of a call, the call       *)
(* returns null at once: the operation is not invoked at that attempt,    *)
(* there is no further attempt, and no counter changes because of it.     *)
C9_AcquisitionFailureAborts ==
    \A i \in EventIdx :
        (IsEvent(i, "return") /\ events[i].acqFailed) =>
            /\ events[i].res = "null"
            /\ i > 1
            /\ events[i - 1].kind \in {"acquire", "switched"}
            /\ events[i - 1].task = events[i].task
            /\ events[i - 1].res = "false"
            /\ events[i].post.stats = events[i - 1].pre.stats
            /\ events[i].inv = events[i].attempt
            /\ events[i].dTotal = events[i].attempt
            /\ events[i].dFail = events[i].attempt
            /\ events[i].dOk = 0
            /\ \A j \in EventIdx :
                  (j > i /\ events[j].task = events[i].task) =>
                      (events[j].attempt = 0 /\ events[j].inv = 0)

(* The acquisition failed at a retry attempt. *)
C9_Witness ==
    \E i \in EventIdx :
        /\ IsEvent(i, "return") /\ events[i].acqFailed
        /\ events[i].attempt > 0

(* C10: a failed invocation adds one to the failed and total counters;    *)
(* one to the conflict counter exactly when the text has the              *)
(* cross-addressing signature; one to the timeout counter exactly when it *)
(* has a timeout signature and no cross-addressing signature.             *)
C10_FailureClassification ==
    \A i \in EventIdx :
        IsEvent(i, "fail") =>
            LET a == events[i].pre.stats
                b == events[i].post.stats
                m == events[i].msg
                conflict == Includes(m, "Unexpected data error") \/ Includes(m, "expected address")
                tmo == Includes(m, "timeout") \/ Includes(m, "ETIMEDOUT")
            IN /\ b.failedRequests = a.failedRequests + 1
               /\ b.totalRequests = a.totalRequests + 1
               /\ b.successfulRequests = a.successfulRequests
               /\ b.connectionErrors = a.connectionErrors
               /\ b.deviceConflicts = a.deviceConflicts + (IF conflict THEN 1 ELSE 0)
               /\ b.timeoutErrors = a.timeoutErrors + (IF tmo /\ ~conflict THEN 1 ELSE 0)

(* The text has both signatures. *)
C10_Witness ==
    \E i \in EventIdx :
        /\ IsEvent(i, "fail")
        /\ Includes(events[i].msg, "expected address")
        /\ Includes(events[i].msg, "timeout")

(* C11: a setter returns true only if its write returned a result and the *)
(* read-back returned the written value; when the write returned a result *)
(* and the read-back returned another value or nothing, it returns false  *)
(* and has made one write call only.                                      *)
C11_SetterConfirmsByReadBack ==
    \A i \in EventIdx :
        IsEvent(i, "setterReturn") =>
            LET e == events[i]
                same == e.rb.ok /\ e.rb.v = e.in.value
            IN /\ e.res => (e.wrote /\ same /\ e.writes = 1)
               /\ (e.wrote /\ ~same) =>
                      (~e.res /\ e.writes = 1 /\ task[e.task].pc = "idle")

(* The write succeeded and the read-back returned another value. *)
C11_Witness ==
    \E i \in EventIdx :
        /\ IsEvent(i, "setterReturn")
        /\ events[i].wrote /\ events[i].rb.ok
        /\ events[i].in = [kind |-> "temp", value |-> 22]
        /\ events[i].rb.v = 20
        /\ ~events[i].res

(* C12: setTemperatureSetpoint with a temperature below 16 or above 30    *)
(* returns false with no effect (no acquisition, no exchange, no change   *)
(* of the link state, of the counters or of the registry); 16 and 30 are  *)
(* accepted.                                                              *)
C12_TemperatureRange ==
    \A i \in EventIdx :
        (IsEvent(i, "setterCall") /\ events[i].in.kind = "temp") =>
            IF events[i].in.value < 16 \/ events[i].in.value > 30
            THEN /\ Len(events) = 2 /\ i = 1
                 /\ IsEvent(2, "setterReturn")
                 /\ ~events[2].res
                 /\ events[2].post = events[1].pre
                 /\ task[events[i].task].pc = "idle"
            ELSE /\ Len(events) > i
                 /\ IsEvent(i + 1, "acquire")
                 /\ events[i + 1].task = events[i].task

C12_Witness ==
    \E i \in EventIdx :
        /\ IsEvent(i, "setterCall")
        /\ events[i].in = [kind |-> "temp", value |-> 31]
        /\ Len(events) = 2 /\ IsEvent(2, "setterReturn") /\ ~events[2].res

(* The values a fan speed or a mode may take. *)
AllowedValues == 0..4

(* C13: setFanSpeed and setOperatingMode called with a value outside the  *)
(* allowed set return false at once: no acquisition, no write, no counter *)
(* change.                                                                *)
C13_FanAndModeValidated ==
    \A i \in EventIdx :
        (/\ IsEvent(i, "setterCall")
         /\ events[i].in.kind \in {"fan", "mode"}
         /\ events[i].in.value \notin AllowedValues) =>
            /\ Len(events) = 2 /\ i = 1
            /\ IsEvent(2, "setterReturn")
            /\ ~events[2].res
            /\ events[2].post = events[1].pre

(* The probe of the poll cycle was rejected or timed out in the last step. *)
ProbeFailed(i) == IsEvent(i, "probe") /\ events[i].msg # NoMessage

(* C15: when the probe of a device fails in a poll cycle, the device is    *)
(* marked offline, no read of it is attempted, the entries of the other   *)
(* devices stay, and the cycle goes on with the next configured device    *)
(* (or ends with the broadcast after the last one); a device that is read *)
(* gets the state made of its own nine results.                           *)
C15_FailedProbeSkipsDevice ==
    \A i \in EventIdx :
        /\ ProbeFailed(i) =>
              LET e == events[i]
                  f == task[e.task]
              IN /\ ~devicesState[e.dev].isOnline
                 /\ \A j \in EventIdx : ~IsEvent(j, "acquire") /\ ~IsEvent(j, "invoke")
                 /\ \A d \in Devices \ {e.dev} : devicesState[d] = e.pre.reg[d]
                 /\ IF e.dev = deviceIds[Len(deviceIds)]
                    THEN /\ f.pc = "idle"
                         /\ \E j \in EventIdx : IsEvent(j, "broadcast")
                    ELSE /\ f.pc = "probe"
                         /\ f.n > 1
                         /\ deviceIds[f.n - 1] = e.dev
                         /\ f.dev = deviceIds[f.n]
                         /\ Len(f.out) = f.n - 1
                         /\ f.out[f.n - 1] = devicesState[e.dev]
        /\ IsEvent(i, "assembled") =>
              LET e == events[i]
              IN /\ Len(e.got) = READS_PER_DEVICE
                 /\ devicesState[e.dev] = AssembleState(e.pre.reg[e.dev], e.got)
                 /\ devicesState[e.dev].isOnline
                 /\ \A d \in Devices \ {e.dev} : devicesState[d] = e.pre.reg[d]

(* The probe of device 6 fails after device 5 was read, and the cycle is  *)
(* at device 7.                                                           *)
C15_Witness ==
    \E i \in EventIdx :
        /\ ProbeFailed(i)
        /\ events[i].dev = 6
        /\ devicesState[5].isOnline
        /\ Len(task[events[i].task].out) = 2
        /\ task[events[i].task].out[1].isOnline
        /\ task[events[i].task].dev = 7

(* The invocation of pollDevices is inside its per-device loop. *)
InCycle(p) == task[p].pc \notin {"idle", "connecting"}

C17_FailedReadsGiveDefaults ==
    \A i \in EventIdx :
        IsEvent(i, "assembled") =>
            LET g == events[i].got
                st == devicesState[events[i].dev]
            IN /\ st.isOnline
               /\ ~g[1].ok => (st.mode = "" /\ ~st.isOn)
               /\ ~g[2].ok => st.setTemperature = 0
               /\ ~g[3].ok => st.fanSpeed = 0
               /\ ~g[4].ok => st.temperature = 0
               /\ ~g[5].ok => st.waterTemperature = 0
               /\ ~g[6].ok => ~st.pumpStatus
               /\ ~g[7].ok => ~st.valveStatus
               /\ ~g[8].ok => st.errors = NoErrors
               /\ ~g[9].ok => st.protectionState = 0

IsConflict(msg) ==
    Includes(msg, "Unexpected data error") \/ Includes(msg, "expected address")

C14_OnePollCycle == Cardinality({p \in Pollers : InCycle(p)}) <= 1

(* C19: after a trigger of pollDevices whose reconnect attempt failed,    *)
(* every device in the registry is offline.                               *)
C19_UnreachableMarksOffline ==
    \A i \in EventIdx :
        IsEvent(i, "broadcastError") => \A d \in Devices : ~devicesState[d].isOnline

(* The identifiers of the requests in a queue. *)
QueueIds(q) == {q[i].id : i \in 1..Len(q)}

(* C21: the processing flag is set exactly while a dequeued request is    *)
(* being processed; a step removes at most one request from the queue,    *)
(* and only when no request is being processed; the flag is clear when a  *)
(* processing pass has ended.                                             *)
C21_OneRequestProcessed ==
    [][/\ Len(requestQueue') >= Len(requestQueue) - 1
       /\ Len(requestQueue') < Len(requestQueue) =>
              (~isProcessingQueue /\ task["queue"].pc = "idle" /\ isProcessingQueue')
       /\ isProcessingQueue' <=> (task'["queue"].pc # "idle")
       /\ (task["queue"].pc # "idle" /\ task'["queue"].pc = "idle") => ~isProcessingQueue']_vars

(* A pass ended without a result while another request is waiting. *)
C21_Witness ==
    \E i \in EventIdx :
        /\ IsEvent(i, "return")
        /\ events[i].task = "queue"
        /\ events[i].res # "ok"
        /\ ~isProcessingQueue
        /\ Len(requestQueue) > 0

(* C22: the request a tick removes has the highest priority in the queue, *)
(* among those the earliest timestamp, and among those it arrived first.  *)
C22_DequeueOrder ==
    \A i \in EventIdx :
        IsEvent(i, "dequeue") =>
            LET r == events[i].request
                q == events[i].before
            IN /\ \E j \in 1..Len(q) : q[j] = r
               /\ \A j \in 1..Len(q) :
                     /\ PriorityOrder(q[j].priority) <= PriorityOrder(r.priority)
                     /\ q[j].priority = r.priority => q[j].timestamp >= r.timestamp
                     /\ (q[j].priority = r.priority /\ q[j].timestamp = r.timestamp) =>
                            q[j].id >= r.id

(* A low request waits; two high requests arrived after it in the same    *)
(* millisecond, and the first of the two is removed.                      *)
C22_Witness ==
    \E i \in EventIdx :
        /\ IsEvent(i, "dequeue")
        /\ Len(events[i].before) = 3
        /\ events[i].request = events[i].before[2]
        /\ events[i].request.priority = "high"
        /\ events[i].before[1].priority = "low"
        /\ events[i].before[3].priority = "high"
        /\ events[i].before[3].timestamp = events[i].request.timestamp

(* C23: only the entry points add to the queue, a request of a new        *)
(* identity each time; the request a tick removes is not in the queue     *)
(* afterwards, and the pass that processed it ends when the executor      *)
(* returns, with a result or without.                                     *)
C23_ProcessedOnce ==
    [][/\ Cardinality(QueueIds(requestQueue')) = Len(requestQueue')
       /\ \A id \in QueueIds(requestQueue') \ QueueIds(requestQueue) :
              calls' = calls + 1 /\ id = calls'
       /\ \A i \in 1..Len(events') :
              /\ events'[i].kind = "dequeue" =>
                    /\ events'[i].request.id \in QueueIds(requestQueue)
                    /\ QueueIds(requestQueue') = QueueIds(requestQueue) \ {events'[i].request.id}
              /\ (events'[i].kind = "return" /\ events'[i].task = "queue") =>
                    /\ task'["queue"].pc = "idle"
                    /\ requestQueue' = requestQueue]_vars

(* A pass ended without a result and the queue is empty. *)
C23_Witness ==
    \E i \in EventIdx :
        /\ IsEvent(i, "return")
        /\ events[i].task = "queue"
        /\ events[i].res # "ok"
        /\ events[i].attempt > 1
        /\ requestQueue = <<>>

DebounceTimers == {t \in busTimers : t.kind = "debounce"}

Pushes == {i \in EventIdx : events[i].kind = "push"}

(* The fields of a device state that a topic key sets. *)
FieldsOf(key) ==
    CASE key = "mode" -> {"mode", "isOn"}
      [] key = "setpoint" -> {"setTemperature"}
      [] key = "fanSpeed" -> {"fanSpeed"}
      [] key = "temperature" -> {"temperature"}
      [] key = "waterTemperature" -> {"waterTemperature"}
      [] key = "pumpStatus" -> {"pumpStatus"}
      [] key = "valveStatus" -> {"valveStatus"}

(* The list holds, for every device and key, what the last text received  *)
(* on that key decodes to.                                                *)
Merged(list) ==
    /\ Len(list) = Len(deviceIds)
    /\ \A i \in 1..Len(list) : \A k \in TopicKeys :
          LET last == rawMqtt[deviceIds[i]][k]
          IN last # <<>> =>
                \A f \in FieldsOf(k) :
                   <<list[i][f]>> = parseValue(NewPartialState(deviceIds[i]), k, last[1])[f]

(* C25: at most one debounce timer is pending and it is the one the last  *)
(* message set; a message cancels the pending debounce timer, sets a new  *)
(* one with the full delay and pushes nothing; when the debounce timer    *)
(* elapses exactly one list is pushed, it holds the latest value received *)
(* for every field of every device, and no debounce timer is left.        *)
C25_OnePushPerBurst ==
    /\ Cardinality(DebounceTimers) <= 1
    /\ DebounceTimers = {t \in busTimers : t.h = updateTimeout}
    /\ \A i \in EventIdx :
          events[i].kind = "message" =>
             /\ Pushes = {}
             /\ updateTimeout = handles
             /\ events[i].updateTimeout < handles
             /\ DebounceTimers = {[h |-> handles, kind |-> "debounce", ms |-> UPDATE_DELAY]}
    /\ \A i \in EventIdx :
          events[i].kind = "elapsed" /\ events[i].timer.kind = "debounce" =>
             /\ events[i].timer.h = events[i].updateTimeout
             /\ events[i].timer.ms = UPDATE_DELAY
             /\ Cardinality(Pushes) = 1
             /\ \A j \in Pushes : Merged(events[j].list)
             /\ DebounceTimers = {}
             /\ updateTimeout = NULL

(* Two messages, for devices 5 and 6, with no push between them, and the  *)
(* timer of the second has elapsed: the one list has both values.         *)
C25_Witness ==
    \E i \in EventIdx : \E j \in Pushes :
       /\ events[i].kind = "elapsed"
       /\ events[i].timer.kind = "debounce"
       /\ events[i].timer.h = 2
       /\ events[i].pendingUpdates = {5, 6}
       /\ events[j].list[1].mode = "cooling"
       /\ events[j].list[2].setTemperature = Num(22)

ForceTimers == {t \in busTimers : t.kind = "force"}

ElapsedForce == {i \in EventIdx : events[i].kind = "elapsed" /\ events[i].timer.kind = "force"}

(* What a step that publishes a command, and a step in which the timer of *)
(* a command elapses, leave behind.                                       *)
Flushed ==
    /\ \A i \in EventIdx :
          events[i].kind = "publish" /\ events[i].outcome # "throws" =>
             [h |-> handles, kind |-> "force", ms |-> SETTLE_DELAY] \in busTimers
    /\ \A i \in ElapsedForce :
          /\ events[i].timer.ms = SETTLE_DELAY
          /\ Cardinality(Pushes) = 1
          /\ \A j \in Pushes :
                events[j].list = [n \in 1..Len(deviceIds) |->
                                     FrontendState(BusSt, states[deviceIds[n]])]
          /\ DebounceTimers = {}
          /\ updateTimeout = NULL
          /\ pendingUpdates = {}

(* C26: a command that has published sets a timer of the settle delay;    *)
(* nothing but its own elapsing removes that timer; when it elapses the   *)
(* pending debounce timer, if any, is cancelled, the full list of devices *)
(* is pushed exactly once, and no debounce timer and no pending update is *)
(* left.                                                                  *)
C26_ForcedFlush ==
    [][/\ \A t \in ForceTimers : t \in busTimers' \/ (\E i \in ElapsedForce : events[i].timer = t)'
       /\ Flushed']_vars

(* The timer of a command elapses while a debounce timer is pending with  *)
(* the update of device 5 not yet pushed.                                 *)
C26_Witness ==
    \E i \in ElapsedForce :
       /\ events[i].updateTimeout # NULL
       /\ events[i].pendingUpdates = {5}
       /\ states[5].isOnline = <<TRUE>>

(* C27: a message for device d on key k leaves every other device as it   *)
(* was, sets the fields of d that k names and the online flag of d, and   *)
(* leaves every other field of d as it was.                               *)
C27_MessageFrame ==
    \A i \in EventIdx :
       events[i].kind = "message" =>
          LET d == events[i].id
              changed == FieldsOf(events[i].key) \cup {"isOnline"}
          IN /\ \A o \in DOMAIN states : o # d => states[o] = events[i].states[o]
             /\ DOMAIN states = DOMAIN events[i].states
             /\ \A f \in DOMAIN states[d] :
                   f \notin changed => states[d][f] = events[i].states[d][f]
             /\ \A f \in FieldsOf(events[i].key) : states[d][f] # <<>>
             /\ states[d].isOnline = <<TRUE>>

(* A temperature arrives for device 5 whose mode is known, with device 6  *)
(* known too.                                                             *)
C27_Witness ==
    \E i \in EventIdx :
       /\ events[i].kind = "message"
       /\ events[i].id = 5
       /\ events[i].key = "temperature"
       /\ events[i].states[5].mode = <<"cooling">>
       /\ events[i].states[6].setTemperature = <<Num(22)>>
       /\ states[5].temperature = <<Num(44)>>

(* C28: the temperature the aggregator stores for a raw value r received  *)
(* on a temperature topic is the one the link stores for register value   *)
(* r: twice the temperature is r - 40.                                    *)
C28_BusTemperatureAsLink ==
    \A i \in EventIdx :
       events[i].kind = "message" /\ events[i].key \in {"temperature", "waterTemperature"}
                                  /\ ~Number(events[i].value).nan =>
          \A f \in FieldsOf(events[i].key) :
             LET stored == states[events[i].id][f][1]
             IN ~stored.nan /\ 2 * stored.n = HalfDegrees(Number(events[i].value).n)

Commanded == {i \in EventIdx : events[i].kind = "command"}

Emitted == {i \in EventIdx : events[i].kind = "emit"}

Rejected(payload) ==
    \/ payload.deviceId = <<>>
    \/ LeadingDigits(Unsigned(replace(payload.deviceId[1], AC_))) = <<>>
    \/ payload.command \notin {"POWER", "SET_TEMPERATURE", "SET_FAN_SPEED"}

(* C30: a command is answered with exactly one response, commandSuccess   *)
(* or commandError; a command whose identifier is not a number or whose   *)
(* kind is not one of the three is answered with commandError and no      *)
(* setter is called for it.                                               *)
C30_OneResponse ==
    \A i \in Commanded :
       /\ Cardinality(Emitted) = 1
       /\ \A j \in Emitted : events[j].name \in {"commandSuccess", "commandError"}
       /\ Rejected(events[i].payload) =>
             /\ \A j \in Emitted : events[j].name = "commandError"
             /\ \A j \in EventIdx : events[j].kind \notin {"setter", "publish"}
             /\ busTimers = events[i].busTimers

(* An unknown command for a known device is answered with commandError. *)
C30_Witness ==
    \E i \in Commanded : \E j \in Emitted :
       /\ events[i].payload.deviceId = <<Text("AC_5")>>
       /\ events[i].payload.command = "RESET"
       /\ events[j].name = "commandError"

(* Bit k of w, by its remainder. *)
BitAt(w, k) == (w % (2 ^ (k + 1))) >= 2 ^ k

(* The bit of the status word each flag stands for. *)
FlagBit ==
    [pumpStatus |-> 0, valveStatus |-> 9, busValveStatus |-> 9, tempSensorError |-> 2,
     waterTempSensor1Error |-> 3, waterTempSensor2Error |-> 4, fanSpeedError |-> 8,
     pumpError |-> 14]

FlagValue(f) ==
    [pumpStatus |-> f.pumpStatus, valveStatus |-> f.valveStatus,
     busValveStatus |-> f.busValveStatus, tempSensorError |-> f.errors.tempSensorError,
     waterTempSensor1Error |-> f.errors.waterTempSensor1Error,
     waterTempSensor2Error |-> f.errors.waterTempSensor2Error,
     fanSpeedError |-> f.errors.fanSpeedError, pumpError |-> f.errors.pumpError]

(* C29: for every 16-bit word the pump flag is bit 0, the valve flag is   *)
(* bit 9 (on the link and on the bus), the error flags are bits 2, 3, 4,  *)
(* 8 and 14; and when one bit of the word is toggled a flag changes if    *)
(* and only if that bit is its own.                                       *)
C29_FlagsAreBits ==
    flags # <<>> =>
       /\ \A n \in DOMAIN FlagBit : FlagValue(flags[1])[n] = BitAt(statusWord, FlagBit[n])
       /\ \A i \in EventIdx :
             events[i].kind = "toggle" =>
                \A n \in DOMAIN FlagBit :
                   (FlagValue(flags[1])[n] # FlagValue(events[i].flags)[n])
                      <=> FlagBit[n] = events[i].bit

(* Bit 14 is set in a word that has bits 0 and 13 set: the pump error     *)
(* appears and the pump flag stays.                                       *)
C29_Witness ==
    /\ statusWord = 2 ^ 14 + 2 ^ 13 + 1
    /\ flags # <<>>
    /\ \E i \in EventIdx :
          /\ events[i].kind = "toggle"
          /\ events[i].bit = 14
          /\ ~events[i].flags.errors.pumpError
          /\ events[i].flags.pumpStatus
    /\ flags[1].errors.pumpError
    /\ flags[1].pumpStatus

(* C31: the registry holds one entry for each configured device and no    *)
(* other key.                                                             *)
C31_RegistryKeysFixed == DOMAIN devicesState = Devices

Counters == {"totalRequests", "successfulRequests", "failedRequests", "deviceConflicts",
             "timeoutErrors"}

(* C32: in a step that is not resetStats no counter decreases; resetStats *)
(* sets every counter to zero.                                            *)
C32_CountersMonotonic ==
    [][/\ resets' = resets => \A c \in Counters : masterStats'[c] >= masterStats[c]
       /\ resets' # resets => \A c \in Counters : masterStats'[c] = 0]_vars

(* Exchanges are counted again after a reset: a failure, then a success. *)
C32_Witness ==
    /\ resets = 1
    /\ masterStats.failedRequests = 1
    /\ masterStats.successfulRequests >= 1

(* C37: the total is the sum of the successes and the failures, and the   *)
(* conflicts and the timeouts together are at most the failures.          *)
C37_CountersConsistent ==
    /\ masterStats.totalRequests = masterStats.successfulRequests + masterStats.failedRequests
    /\ masterStats.deviceConflicts + masterStats.timeoutErrors <= masterStats.failedRequests

(* A conflict has been counted, and successes with it. *)
C37_Witness ==
    /\ masterStats.deviceConflicts = 1
    /\ masterStats.failedRequests = 1
    /\ masterStats.successfulRequests = 2

(* C33: a handler that waits in a switch leaves it, and the busy flag,    *)
(* once set, is cleared, also when setting the client address throws;     *)
(* when a switch that succeeded has cleared the flag the active device is *)
(* the device that was requested.                                         *)
C33_SwitchReleasesLock ==
    /\ (requestLock \/ Switching # {}) ~> (~requestLock /\ Switching = {})
    /\ [](\A i \in EventIdx :
             events[i].kind = "switched" =>
                /\ ~events[i].post.lock
                /\ events[i].res = "true" => events[i].post.cur = events[i].dev)

(* Setting the client address has thrown and the flag is clear. *)
C33_Witness ==
    \E i \in EventIdx :
       /\ events[i].kind = "switched"
       /\ events[i].res = "false"
       /\ events[i].pre.lock
       /\ ~requestLock

(* C34: a cycle that set isPolling clears it again; the step that ends a    *)
(* cycle (its broadcast of the collected states) leaves the flag cleared,   *)
(* so the next trigger is accepted.                                         *)
CycleEnd(i) == events[i].kind = "broadcast" /\ events[i].task \in Pollers

C35_ReconnectBounded ==
    /\ [](mqtt.reconnectAttempts <= MAX_RECONNECT_ATTEMPTS)
    /\ [](\A i \in DOMAIN mqtt.timers : mqtt.timers[i] = RECONNECT_DELAY)
    /\ [](\A i \in EventIdx : events[i].kind = "connect" => mqtt.reconnectAttempts = 0)
    /\ [][(/\ mqtt.reconnectAttempts = MAX_RECONNECT_ATTEMPTS
           /\ mqtt'.reconnectAttempts = MAX_RECONNECT_ATTEMPTS)
              => Len(mqtt'.timers) <= Len(mqtt.timers)]_vars

(* The fifth attempt has failed: the client is closed for good. *)
C35_Witness ==
    /\ mqtt.reconnectAttempts = MAX_RECONNECT_ATTEMPTS
    /\ mqtt.timers = <<>>
    /\ mqtt.clients = <<>>
    /\ \E i \in EventIdx : events[i].kind = "close" /\ events[i].was.reconnectAttempts = MAX_RECONNECT_ATTEMPTS

Published == {i \in EventIdx : events[i].kind = "publish"}

SetterResults == {events[i].result : i \in {j \in EventIdx : events[j].kind = "setterResult"}}

(* The timers the last command has set. *)
NewTimers == UNION {busTimers \ events[i].busTimers : i \in Commanded}

(* C39: a bus setter that reaches publish returns true exactly when       *)
(* publish does not throw, and then one forced flush is set and the       *)
(* gateway answers commandSuccess; when the client is not connected       *)
(* publish sends nothing and the setter returns true all the same.        *)
C39_TrueUnlessPublishThrows ==
    \A i \in Published :
       /\ events[i].id \in AC_IDS
       /\ SetterResults = {IF events[i].outcome = "throws" THEN "false" ELSE "true"}
       /\ events[i].outcome # "throws" =>
             /\ \E t \in NewTimers : NewTimers = {t} /\ t.kind = "force" /\ t.ms = SETTLE_DELAY
             /\ \A j \in Emitted : events[j].name = "commandSuccess"
       /\ events[i].outcome = "throws" =>
             /\ NewTimers = {}
             /\ \A j \in Emitted : events[j].name = "commandError"
       /\ ~mqtt.isConnected => events[i].outcome = "dropped" /\ SetterResults = {"true"}

(* A command after the connection has closed: nothing is sent, the answer *)
(* is commandSuccess.                                                     *)
C39_Witness ==
    /\ ~mqtt.isConnected
    /\ mqtt.reconnectAttempts > 0
    /\ \E i \in Published : events[i].outcome = "dropped"
    /\ \E j \in Emitted : events[j].name = "commandSuccess"
    /\ \E t \in NewTimers : t.kind = "force"

(* C36: once no further request is enqueued, the queue empties and the    *)
(* consumer comes to rest: every request that was in the queue has been   *)
(* taken and its execution has ended.                                     *)
C36_QueueDrains ==
    (calls = lim.calls) ~> (requestQueue = <<>> /\ ~isProcessingQueue /\ task["queue"].pc = "idle")

(* The last request allowed is in: two requests wait while one is executed. *)
C36_Witness ==
    /\ calls = lim.calls
    /\ Len(requestQueue) >= 2
    /\ isProcessingQueue

(* The requests whose callers still wait for their answer. *)
Waiting(w) == {x.id : x \in w}

C40_DecodersAgree ==
    \A i \in EventIdx :
       events[i].kind = "message" /\ events[i].key = "mode" /\ ~Number(events[i].value).nan =>
          LET m == Number(events[i].value).n
          IN /\ states[events[i].id].mode = <<convertMode(m)>>
             /\ states[events[i].id].isOn = <<m > 0>>

============================================================================
